---- MODULE Spec2Model ----
(***************************************************************************)
(* A model of the report extraction pipeline of                            *)
(* backend/app/services/gemini_service.py: parse_analysis_result (heading  *)
(* classification, line segmentation, schema mapping), extract_section and *)
(* extract_sections_from_content, with the type check of analyze_diagram.  *)
(*                                                                         *)
(* Python strings are modelled as sequences of one-character strings, so   *)
(* that the regular expressions, str.split, str.strip, str.lower,          *)
(* str.replace and the substring test are computed character by character. *)
(***************************************************************************)
EXTENDS Integers, Sequences, FiniteSets, TLC

(***************************************************************************)
(* Bounds of the model: the inputs are the texts of at most MaxLines lines *)
(* taken from SampleLines, and the texts of at most MaxSectionLines lines  *)
(* taken from SectionLines (fewer kinds of line, in longer texts, so that  *)
(* headings repeat).                                                       *)
(***************************************************************************)
MaxLines == 3

MaxSectionLines == 5

(***************************************************************************)
(* Characters.                                                             *)
(***************************************************************************)
NL == "\n"

UpperChars == <<"A", "B", "C", "D", "E", "F", "G", "H", "I", "J", "K", "L", "M", "N", "O", "P", "Q", "R", "S", "T", "U", "V", "W", "X", "Y", "Z">>

LowerChars == <<"a", "b", "c", "d", "e", "f", "g", "h", "i", "j", "k", "l", "m", "n", "o", "p", "q", "r", "s", "t", "u", "v", "w", "x", "y", "z">>

DigitChars == <<"0", "1", "2", "3", "4", "5", "6", "7", "8", "9">>

UpperSet == {UpperChars[k] : k \in 1..26}

LowerSet == {LowerChars[k] : k \in 1..26}

DigitSet == {DigitChars[k] : k \in 1..10}

\* the characters Python's str.strip() and the regex class \s treat as whitespace
WhiteSpace == {" ", NL, "\t", "\r", "\f"}

\* the lower-case letter of each upper-case letter
LowerOf == [c \in UpperSet |-> LowerChars[CHOOSE k \in 1..26 : UpperChars[k] = c]]

\* str.lower() on one character
LowerCh(c) == IF c \in UpperSet THEN LowerOf[c] ELSE c

(***************************************************************************)
(* The literals of the source.                                             *)
(***************************************************************************)
\* r'^(ARCHITECTURE|COMPONENTS|...|ROADMAP)': the alternatives, in order
common_section_names == <<
    <<"A", "R", "C", "H", "I", "T", "E", "C", "T", "U", "R", "E">>,
    <<"C", "O", "M", "P", "O", "N", "E", "N", "T", "S">>,
    <<"R", "E", "L", "I", "A", "B", "I", "L", "I", "T", "Y">>,
    <<"S", "C", "A", "L", "A", "B", "I", "L", "I", "T", "Y">>,
    <<"S", "E", "C", "U", "R", "I", "T", "Y">>,
    <<"O", "B", "S", "E", "R", "V", "A", "B", "I", "L", "I", "T", "Y">>,
    <<"P", "E", "R", "F", "O", "R", "M", "A", "N", "C", "E">>,
    <<"O", "P", "E", "R", "A", "T", "I", "O", "N", "A", "L">>,
    <<"R", "E", "C", "O", "M", "M", "E", "N", "D", "A", "T", "I", "O", "N", "S">>,
    <<"D", "E", "P", "E", "N", "D", "E", "N", "C", "Y">>,
    <<"S", "T", "E", "A", "D", "Y", " ", "S", "T", "A", "T", "E">>,
    <<"H", "Y", "P", "O", "T", "H", "E", "S", "I", "S">>,
    <<"E", "X", "P", "E", "R", "I", "M", "E", "N", "T">>,
    <<"R", "U", "M", "S", "F", "E", "L", "D">>,
    <<"T", "E", "S", "T", " ", "C", "A", "S", "E">>,
    <<"B", "L", "A", "S", "T", " ", "R", "A", "D", "I", "U", "S">>,
    <<"C", "O", "V", "E", "R", "A", "G", "E">>,
    <<"E", "X", "E", "C", "U", "T", "I", "V", "E", " ", "S", "U", "M", "M", "A", "R", "Y">>,
    <<"A", "P", "P", "L", "I", "C", "A", "T", "I", "O", "N", " ", "O", "V", "E", "R", "V", "I", "E", "W">>,
    <<"R", "E", "Q", "U", "I", "R", "E", "M", "E", "N", "T", "S">>,
    <<"R", "I", "S", "K">>,
    <<"I", "N", "C", "I", "D", "E", "N", "T">>,
    <<"R", "O", "A", "D", "M", "A", "P">> >>

system_analysis_keywords == <<
    <<"a", "r", "c", "h", "i", "t", "e", "c", "t", "u", "r", "e">>,
    <<"c", "o", "m", "p", "o", "n", "e", "n", "t", "s">>,
    <<"r", "e", "l", "i", "a", "b", "i", "l", "i", "t", "y">>,
    <<"s", "c", "a", "l", "a", "b", "i", "l", "i", "t", "y">>,
    <<"s", "e", "c", "u", "r", "i", "t", "y">>,
    <<"o", "b", "s", "e", "r", "v", "a", "b", "i", "l", "i", "t", "y">>,
    <<"p", "e", "r", "f", "o", "r", "m", "a", "n", "c", "e">>,
    <<"o", "p", "e", "r", "a", "t", "i", "o", "n", "a", "l">>,
    <<"r", "e", "c", "o", "m", "m", "e", "n", "d", "a", "t", "i", "o", "n", "s">> >>

destructive_testing_keywords == <<
    <<"d", "e", "p", "e", "n", "d", "e", "n", "c", "y">>,
    <<"d", "e", "p", "e", "n", "d", "e", "n", "c", "i", "e", "s">>,
    <<"s", "t", "e", "a", "d", "y", " ", "s", "t", "a", "t", "e">>,
    <<"h", "y", "p", "o", "t", "h", "e", "s", "i", "s">>,
    <<"e", "x", "p", "e", "r", "i", "m", "e", "n", "t">>,
    <<"r", "u", "m", "s", "f", "e", "l", "d">>,
    <<"t", "e", "s", "t", " ", "c", "a", "s", "e">>,
    <<"b", "l", "a", "s", "t", " ", "r", "a", "d", "i", "u", "s">>,
    <<"c", "o", "v", "e", "r", "a", "g", "e">> >>

prr_keywords == <<
    <<"e", "x", "e", "c", "u", "t", "i", "v", "e", " ", "s", "u", "m", "m", "a", "r", "y">>,
    <<"a", "p", "p", "l", "i", "c", "a", "t", "i", "o", "n", " ", "o", "v", "e", "r", "v", "i", "e", "w">>,
    <<"r", "e", "l", "i", "a", "b", "i", "l", "i", "t", "y", " ", "r", "e", "q", "u", "i", "r", "e", "m", "e", "n", "t", "s">>,
    <<"r", "i", "s", "k", " ", "a", "s", "s", "e", "s", "s", "m", "e", "n", "t">>,
    <<"o", "b", "s", "e", "r", "v", "a", "b", "i", "l", "i", "t", "y", " ", "s", "t", "r", "a", "t", "e", "g", "y">>,
    <<"d", "e", "s", "t", "r", "u", "c", "t", "i", "v", "e", " ", "t", "e", "s", "t", "i", "n", "g">>,
    <<"i", "n", "c", "i", "d", "e", "n", "t", " ", "r", "e", "s", "p", "o", "n", "s", "e">>,
    <<"r", "e", "l", "i", "a", "b", "i", "l", "i", "t", "y", " ", "r", "o", "a", "d", "m", "a", "p">> >>

all_keywords == system_analysis_keywords \o destructive_testing_keywords \o prr_keywords

\* the section the scan starts in, and the key of the substituted section
overview == <<"o", "v", "e", "r", "v", "i", "e", "w">>

full_text == <<"f", "u", "l", "l", "_", "t", "e", "x", "t">>

section_prefix == <<"s", "e", "c", "t", "i", "o", "n", "_">>

\* the value returned under "text" for empty input
NoDataMessage == <<"N", "o", " ", "a", "n", "a", "l", "y", "s", "i", "s", " ", "d", "a", "t", "a", " ", "a", "v", "a", "i", "l", "a", "b", "l", "e">>

\* the fields of the SYSTEM_ANALYSIS branch with their possible keys, in source order
SystemAnalysisSchema == <<
    [field |-> "components", possible_keys |-> <<
        <<"c", "o", "m", "p", "o", "n", "e", "n", "t", "s">>,
        <<"a", "r", "c", "h", "i", "t", "e", "c", "t", "u", "r", "e", "_", "c", "o", "m", "p", "o", "n", "e", "n", "t">>,
        <<"c", "o", "m", "p", "o", "n", "e", "n", "t", "_", "a", "n", "a", "l", "y", "s", "i", "s">>,
        <<"a", "r", "c", "h", "i", "t", "e", "c", "t", "u", "r", "e">> >>],
    [field |-> "reliability", possible_keys |-> <<
        <<"r", "e", "l", "i", "a", "b", "i", "l", "i", "t", "y">>,
        <<"r", "e", "l", "i", "a", "b", "i", "l", "i", "t", "y", "_", "a", "s", "s", "e", "s", "s", "m", "e", "n", "t">>,
        <<"s", "p", "o", "f">>,
        <<"s", "i", "n", "g", "l", "e", "_", "p", "o", "i", "n", "t", "s", "_", "o", "f", "_", "f", "a", "i", "l", "u", "r", "e">> >>],
    [field |-> "scalability", possible_keys |-> <<
        <<"s", "c", "a", "l", "a", "b", "i", "l", "i", "t", "y">>,
        <<"s", "c", "a", "l", "a", "b", "i", "l", "i", "t", "y", "_", "a", "n", "a", "l", "y", "s", "i", "s">>,
        <<"s", "c", "a", "l", "i", "n", "g">> >>],
    [field |-> "security", possible_keys |-> <<
        <<"s", "e", "c", "u", "r", "i", "t", "y">>,
        <<"s", "e", "c", "u", "r", "i", "t", "y", "_", "e", "v", "a", "l", "u", "a", "t", "i", "o", "n">>,
        <<"a", "u", "t", "h", "e", "n", "t", "i", "c", "a", "t", "i", "o", "n">>,
        <<"a", "u", "t", "h", "o", "r", "i", "z", "a", "t", "i", "o", "n">> >>],
    [field |-> "observability", possible_keys |-> <<
        <<"o", "b", "s", "e", "r", "v", "a", "b", "i", "l", "i", "t", "y">>,
        <<"o", "b", "s", "e", "r", "v", "a", "b", "i", "l", "i", "t", "y", "_", "a", "s", "s", "e", "s", "s", "m", "e", "n", "t">>,
        <<"m", "o", "n", "i", "t", "o", "r", "i", "n", "g">>,
        <<"l", "o", "g", "g", "i", "n", "g">> >>],
    [field |-> "performance", possible_keys |-> <<
        <<"p", "e", "r", "f", "o", "r", "m", "a", "n", "c", "e">>,
        <<"p", "e", "r", "f", "o", "r", "m", "a", "n", "c", "e", "_", "c", "o", "n", "s", "i", "d", "e", "r", "a", "t", "i", "o", "n", "s">>,
        <<"l", "a", "t", "e", "n", "c", "y">>,
        <<"t", "h", "r", "o", "u", "g", "h", "p", "u", "t">> >>],
    [field |-> "operational_complexity", possible_keys |-> <<
        <<"o", "p", "e", "r", "a", "t", "i", "o", "n", "a", "l", "_", "c", "o", "m", "p", "l", "e", "x", "i", "t", "y">>,
        <<"o", "p", "e", "r", "a", "t", "i", "o", "n", "s">>,
        <<"d", "e", "p", "l", "o", "y", "m", "e", "n", "t">>,
        <<"m", "a", "i", "n", "t", "e", "n", "a", "n", "c", "e">> >>],
    [field |-> "recommendations", possible_keys |-> <<
        <<"r", "e", "c", "o", "m", "m", "e", "n", "d", "a", "t", "i", "o", "n", "s">>,
        <<"i", "m", "p", "r", "o", "v", "e", "m", "e", "n", "t", "s">>,
        <<"s", "u", "g", "g", "e", "s", "t", "e", "d">>,
        <<"e", "n", "h", "a", "n", "c", "e", "m", "e", "n", "t">> >>] >>

\* the fields of the DESTRUCTIVE_TESTING branch
DestructiveTestingSchema == <<
    [field |-> "dependency_analysis", possible_keys |-> <<
        <<"d", "e", "p", "e", "n", "d", "e", "n", "c", "y", "_", "a", "n", "a", "l", "y", "s", "i", "s">>,
        <<"d", "e", "p", "e", "n", "d", "e", "n", "c", "i", "e", "s">>,
        <<"i", "n", "t", "e", "r", "c", "o", "n", "n", "e", "c", "t", "i", "o", "n", "s">> >>],
    [field |-> "steady_state_definition", possible_keys |-> <<
        <<"s", "t", "e", "a", "d", "y", "_", "s", "t", "a", "t", "e", "_", "d", "e", "f", "i", "n", "i", "t", "i", "o", "n">>,
        <<"s", "t", "e", "a", "d", "y", "_", "s", "t", "a", "t", "e">>,
        <<"s", "l", "i">>,
        <<"s", "l", "o">> >>],
    [field |-> "hypothesis_generation", possible_keys |-> <<
        <<"h", "y", "p", "o", "t", "h", "e", "s", "i", "s", "_", "g", "e", "n", "e", "r", "a", "t", "i", "o", "n">>,
        <<"h", "y", "p", "o", "t", "h", "e", "s", "e", "s">>,
        <<"h", "y", "p", "o", "t", "h", "e", "s", "i", "s">> >>],
    [field |-> "experiment_design", possible_keys |-> <<
        <<"e", "x", "p", "e", "r", "i", "m", "e", "n", "t", "_", "d", "e", "s", "i", "g", "n">>,
        <<"e", "x", "p", "e", "r", "i", "m", "e", "n", "t", "s">>,
        <<"t", "e", "s", "t", "_", "c", "a", "s", "e", "s">>,
        <<"c", "h", "a", "o", "s", "_", "t", "e", "s", "t", "i", "n", "g">> >>],
    [field |-> "rumsfeld_matrix", possible_keys |-> <<
        <<"r", "u", "m", "s", "f", "e", "l", "d", "_", "m", "a", "t", "r", "i", "x">>,
        <<"k", "n", "o", "w", "n", "_", "u", "n", "k", "n", "o", "w", "n", "s">>,
        <<"u", "n", "k", "n", "o", "w", "n", "_", "u", "n", "k", "n", "o", "w", "n", "s">> >>],
    [field |-> "test_case_management", possible_keys |-> <<
        <<"t", "e", "s", "t", "_", "c", "a", "s", "e", "_", "m", "a", "n", "a", "g", "e", "m", "e", "n", "t">>,
        <<"t", "e", "s", "t", "_", "c", "a", "s", "e", "s">>,
        <<"l", "i", "t", "m", "u", "s", "_", "c", "h", "a", "o", "s">> >>],
    [field |-> "blast_radius_analysis", possible_keys |-> <<
        <<"b", "l", "a", "s", "t", "_", "r", "a", "d", "i", "u", "s", "_", "a", "n", "a", "l", "y", "s", "i", "s">>,
        <<"b", "l", "a", "s", "t", "_", "r", "a", "d", "i", "u", "s">>,
        <<"i", "m", "p", "a", "c", "t", "_", "s", "c", "o", "p", "e">> >>],
    [field |-> "coverage", possible_keys |-> <<
        <<"c", "o", "v", "e", "r", "a", "g", "e">>,
        <<"c", "o", "m", "p", "l", "e", "t", "e", "_", "c", "o", "v", "e", "r", "a", "g", "e">>,
        <<"t", "e", "s", "t", "_", "c", "o", "v", "e", "r", "a", "g", "e">> >>] >>

\* the fields of the PRR branch
PRRSchema == <<
    [field |-> "executive_summary", possible_keys |-> <<
        <<"e", "x", "e", "c", "u", "t", "i", "v", "e", "_", "s", "u", "m", "m", "a", "r", "y">>,
        <<"s", "u", "m", "m", "a", "r", "y">>,
        <<"o", "v", "e", "r", "v", "i", "e", "w">> >>],
    [field |-> "application_overview", possible_keys |-> <<
        <<"a", "p", "p", "l", "i", "c", "a", "t", "i", "o", "n", "_", "o", "v", "e", "r", "v", "i", "e", "w">>,
        <<"a", "p", "p", "l", "i", "c", "a", "t", "i", "o", "n">>,
        <<"o", "v", "e", "r", "v", "i", "e", "w">> >>],
    [field |-> "reliability_requirements", possible_keys |-> <<
        <<"r", "e", "l", "i", "a", "b", "i", "l", "i", "t", "y", "_", "r", "e", "q", "u", "i", "r", "e", "m", "e", "n", "t", "s">>,
        <<"r", "e", "q", "u", "i", "r", "e", "m", "e", "n", "t", "s">>,
        <<"s", "l", "o">>,
        <<"a", "v", "a", "i", "l", "a", "b", "i", "l", "i", "t", "y">> >>],
    [field |-> "risk_assessment", possible_keys |-> <<
        <<"r", "i", "s", "k", "_", "a", "s", "s", "e", "s", "s", "m", "e", "n", "t">>,
        <<"r", "i", "s", "k", "s">>,
        <<"v", "u", "l", "n", "e", "r", "a", "b", "i", "l", "i", "t", "i", "e", "s">>,
        <<"s", "p", "o", "f">> >>],
    [field |-> "observability_strategy", possible_keys |-> <<
        <<"o", "b", "s", "e", "r", "v", "a", "b", "i", "l", "i", "t", "y", "_", "s", "t", "r", "a", "t", "e", "g", "y">>,
        <<"o", "b", "s", "e", "r", "v", "a", "b", "i", "l", "i", "t", "y">>,
        <<"m", "o", "n", "i", "t", "o", "r", "i", "n", "g">>,
        <<"l", "o", "g", "g", "i", "n", "g">> >>],
    [field |-> "destructive_testing_results", possible_keys |-> <<
        <<"d", "e", "s", "t", "r", "u", "c", "t", "i", "v", "e", "_", "t", "e", "s", "t", "i", "n", "g", "_", "r", "e", "s", "u", "l", "t", "s">>,
        <<"t", "e", "s", "t", "i", "n", "g", "_", "r", "e", "s", "u", "l", "t", "s">>,
        <<"c", "h", "a", "o", "s", "_", "t", "e", "s", "t", "i", "n", "g">> >>],
    [field |-> "incident_response", possible_keys |-> <<
        <<"i", "n", "c", "i", "d", "e", "n", "t", "_", "r", "e", "s", "p", "o", "n", "s", "e">>,
        <<"r", "e", "s", "p", "o", "n", "s", "e">>,
        <<"e", "s", "c", "a", "l", "a", "t", "i", "o", "n">>,
        <<"r", "u", "n", "b", "o", "o", "k">> >>],
    [field |-> "reliability_roadmap", possible_keys |-> <<
        <<"r", "e", "l", "i", "a", "b", "i", "l", "i", "t", "y", "_", "r", "o", "a", "d", "m", "a", "p">>,
        <<"r", "o", "a", "d", "m", "a", "p">>,
        <<"i", "m", "p", "r", "o", "v", "e", "m", "e", "n", "t", "s">> >>] >>

(***************************************************************************)
(* Python's string operations, on sequences of characters.                 *)
(***************************************************************************)
\* the number of consecutive characters of s, from position from on, that are in set
RECURSIVE RunLen(_, _, _)
RunLen(s, from, set) ==
    IF from <= Len(s) /\ s[from] \in set THEN 1 + RunLen(s, from + 1, set) ELSE 0

\* str.strip()
Strip(s) ==
    LET lead  == RunLen(s, 1, WhiteSpace)
        rest  == SubSeq(s, lead + 1, Len(s))
        keep  == IF \E k \in 1..Len(rest) : rest[k] \notin WhiteSpace
                 THEN CHOOSE k \in 1..Len(rest) :
                          /\ rest[k] \notin WhiteSpace
                          /\ \A m \in (k + 1)..Len(rest) : rest[m] \in WhiteSpace
                 ELSE 0
    IN  SubSeq(rest, 1, keep)

\* str.lower()
Lower(s) == [k \in 1..Len(s) |-> LowerCh(s[k])]

\* str.isupper(): at least one cased character, and no lower-case one
IsUpper(s) ==
    /\ \E k \in 1..Len(s) : s[k] \in UpperSet
    /\ \A k \in 1..Len(s) : s[k] \notin LowerSet

\* str.replace(old, new) for single characters
Replace(s, old, new) == [k \in 1..Len(s) |-> IF s[k] = old THEN new ELSE s[k]]

\* the substring test  needle in hay
Contains(hay, needle) ==
    \E p \in 0..(Len(hay) - Len(needle)) :
        \A k \in 1..Len(needle) : hay[p + k] = needle[k]

\* str.startswith
StartsWith(s, prefix) ==
    /\ Len(prefix) <= Len(s)
    /\ \A k \in 1..Len(prefix) : s[k] = prefix[k]

\* the position of the first newline of s at or after p, 0 when there is none
RECURSIVE NextNewline(_, _)
NextNewline(s, p) ==
    IF p > Len(s) THEN 0
    ELSE IF s[p] = NL THEN p
    ELSE NextNewline(s, p + 1)

\* text.split('\n')
RECURSIVE Split(_)
Split(s) ==
    LET k == NextNewline(s, 1)
    IN  IF k = 0 THEN <<s>>
        ELSE <<SubSeq(s, 1, k - 1)>> \o Split(SubSeq(s, k + 1, Len(s)))

\* '\n'.join(parts)
RECURSIVE Join(_)
Join(parts) ==
    IF parts = <<>> THEN <<>>
    ELSE IF Len(parts) = 1 THEN parts[1]
    ELSE parts[1] \o <<NL>> \o Join(Tail(parts))

\* str(n) for a natural number
RECURSIVE Str(_)
Str(n) == IF n < 10 THEN <<DigitChars[n + 1]>> ELSE Str(n \div 10) \o <<DigitChars[(n % 10) + 1]>>

(***************************************************************************)
(* Python's dict, which keeps insertion order: a sequence of entries with  *)
(* distinct names; assigning an existing key keeps its place.              *)
(***************************************************************************)
HasKey(d, key) == \E j \in 1..Len(d) : d[j].name = key

DictGet(d, key) == d[CHOOSE j \in 1..Len(d) : d[j].name = key].body

\* DictSet with a slip: an existing key keeps its value (dict.setdefault)
DictSetDefault(d, key, value) ==
    IF \E j \in 1..Len(d) : d[j].name = key THEN d
    ELSE Append(d, [name |-> key, body |-> value])

DictSet(d, key, value) ==
    IF HasKey(d, key)
    THEN [j \in 1..Len(d) |-> IF d[j].name = key THEN [name |-> key, body |-> value] ELSE d[j]]
    ELSE Append(d, [name |-> key, body |-> value])

(***************************************************************************)
(* Heading detection: heading_patterns, heading_regex and the test of the  *)
(* scan loop.                                                              *)
(***************************************************************************)
\* r'^#+\s+': the length of the match at the start of s, 0 when it does not match
MarkdownPrefixLen(s) ==
    LET hashes == RunLen(s, 1, {"#"})
        spaces == RunLen(s, hashes + 1, WhiteSpace)
    IN  IF hashes >= 1 /\ spaces >= 1 THEN hashes + spaces ELSE 0

MarkdownHeading(s) == MarkdownPrefixLen(s) > 0

\* AllCapsHeading with a slip: the pattern ends with $, so the colon ends the line
AllCapsHeadingWholeLine(s) ==
    /\ Len(s) >= 3
    /\ s[1] \in UpperSet
    /\ s[Len(s)] = ":"
    /\ \A k \in 2..(Len(s) - 1) : s[k] \in UpperSet \cup WhiteSpace

\* r'^[A-Z][A-Z\s]+:'
AllCapsHeading(s) ==
    /\ Len(s) >= 1
    /\ s[1] \in UpperSet
    /\ LET run == RunLen(s, 2, UpperSet \cup WhiteSpace)
       IN  run >= 1 /\ run + 2 <= Len(s) /\ s[run + 2] = ":"

\* r'^\d+\.\s+[A-Z]'
NumberedHeading(s) ==
    LET digits == RunLen(s, 1, DigitSet)
        spaces == RunLen(s, digits + 2, WhiteSpace)
    IN  /\ digits >= 1
        /\ digits + 1 <= Len(s)
        /\ s[digits + 1] = "."
        /\ spaces >= 1
        /\ digits + 2 + spaces <= Len(s)
        /\ s[digits + 2 + spaces] \in UpperSet

\* r'^(ARCHITECTURE|COMPONENTS|...)'
CommonSectionName(s) ==
    \E n \in 1..Len(common_section_names) : StartsWith(s, common_section_names[n])

\* heading_regex.match(line)
heading_regex(line) ==
    \/ MarkdownHeading(line)
    \/ AllCapsHeading(line)
    \/ NumberedHeading(line)
    \/ CommonSectionName(line)

\* the condition of the scan loop
IsHeading(line) ==
    \/ heading_regex(line)
    \/ (IsUpper(Strip(line)) /\ Len(Strip(line)) > 3)

\* SectionName with a slip: the '#' are removed also when no whitespace follows them
SectionNameHashesOff(line, n) ==
    LET lowered   == Lower(Strip(line))
        hashes    == RunLen(lowered, 1, {"#"})
        nomark    == SubSeq(lowered, hashes + RunLen(lowered, hashes + 1, WhiteSpace) + 1,
                            Len(lowered))
        nocolon   == IF nomark # <<>> /\ nomark[Len(nomark)] = ":"
                     THEN SubSeq(nomark, 1, Len(nomark) - 1)
                     ELSE nomark
        section_name == Replace(nocolon, " ", "_")
    IN  IF section_name = <<>> THEN section_prefix \o Str(n) ELSE section_name

\* SectionName with a slip: an empty name is kept, there is no placeholder
SectionNameNoPlaceholder(line, n) ==
    LET lowered   == Lower(Strip(line))
        nomark    == SubSeq(lowered, MarkdownPrefixLen(lowered) + 1, Len(lowered))
        nocolon   == IF nomark # <<>> /\ nomark[Len(nomark)] = ":"
                     THEN SubSeq(nomark, 1, Len(nomark) - 1)
                     ELSE nomark
    IN  Replace(nocolon, " ", "_")

\* the section name made from a heading line; n is len(sections)
SectionName(line, n) ==
    LET lowered   == Lower(Strip(line))
        nomark    == SubSeq(lowered, MarkdownPrefixLen(lowered) + 1, Len(lowered))
        nocolon   == IF nomark # <<>> /\ nomark[Len(nomark)] = ":"
                     THEN SubSeq(nomark, 1, Len(nomark) - 1)
                     ELSE nomark
        section_name == Replace(nocolon, " ", "_")
    IN  IF section_name = <<>> THEN section_prefix \o Str(n) ELSE section_name

(***************************************************************************)
(* extract_section                                                         *)
(***************************************************************************)
\* extract_section with a slip: only the first possible key is tried
extract_section_first_key(sections, possible_keys) ==
    IF \E b \in 1..Len(sections) : Contains(sections[b].name, possible_keys[1])
    THEN sections[CHOOSE b \in 1..Len(sections) :
                      /\ Contains(sections[b].name, possible_keys[1])
                      /\ \A c \in 1..(b - 1) : ~Contains(sections[c].name, possible_keys[1])].body
    ELSE <<>>

\* extract_section with a slip: the loops are nested the other way round, the section
\* names outside and the possible keys inside
extract_section_by_name(sections, possible_keys) ==
    LET hits == {h \in (1..Len(possible_keys)) \X (1..Len(sections)) :
                    Contains(sections[h[2]].name, possible_keys[h[1]])}
    IN  IF hits = {} THEN <<>>
        ELSE LET first == CHOOSE h \in hits :
                              \A g \in hits : h[2] < g[2] \/ (h[2] = g[2] /\ h[1] <= g[1])
             IN  sections[first[2]].body

extract_section(sections, possible_keys) ==
    LET hits == {h \in (1..Len(possible_keys)) \X (1..Len(sections)) :
                    Contains(sections[h[2]].name, possible_keys[h[1]])}
    IN  IF hits = {} THEN <<>>
        ELSE LET first == CHOOSE h \in hits :
                              \A g \in hits : h[1] < g[1] \/ (h[1] = g[1] /\ h[2] <= g[2])
             IN  sections[first[2]].body

(***************************************************************************)
(* extract_sections_from_content                                           *)
(***************************************************************************)
\* does re.compile(f"({keyword}:?)[^\n]*\n", re.IGNORECASE) match at position p;
\* low is the lower-cased text (the keywords are lower-case literals): the keyword
\* stands at p, and a newline follows it on its line
PatternMatchAt(low, keyword, p) ==
    /\ p + Len(keyword) - 1 <= Len(low)
    /\ \A k \in 1..Len(keyword) : low[p + k - 1] = keyword[k]
    /\ NextNewline(low, p + Len(keyword)) # 0

\* match.end() of the match at p: the position after the newline that ends it
PatternMatchEnd(low, keyword, p) == NextNewline(low, p + Len(keyword)) + 1

\* pattern.search(text, pos).start(): the leftmost match at or after pos, 0 when none
PatternSearch(low, keyword, pos) ==
    LET found == {p \in pos..Len(low) : low[p] = keyword[1] /\ PatternMatchAt(low, keyword, p)}
    IN  IF found = {} THEN 0
        ELSE CHOOSE p \in found : \A q \in found : p <= q

\* pattern.finditer(text): the starts of the successive non-overlapping matches
RECURSIVE FindIter(_, _, _)
FindIter(low, keyword, pos) ==
    LET p == PatternSearch(low, keyword, pos)
    IN  IF p = 0 THEN <<>>
        ELSE <<p>> \o FindIter(low, keyword, PatternMatchEnd(low, keyword, p))

\* SectionEnd with a slip: the section always runs to the end of the text
SectionEndOfText(low, start_pos) == Len(low) + 1

\* end_pos: the start of the nearest match of any keyword from start_pos on, else len(text)
SectionEnd(low, start_pos) ==
    LET starts == {PatternSearch(low, all_keywords[n], start_pos) :
                       n \in 1..Len(all_keywords)} \ {0}
    IN  IF starts = {} THEN Len(low) + 1
        ELSE CHOOSE e \in starts : \A f \in starts : e <= f

\* SectionContent with a slip: the content starts at match.start(), not match.end()
SectionContentFromStart(text, low, keyword, p) ==
    Strip(SubSeq(text, p, SectionEnd(low, PatternMatchEnd(low, keyword, p)) - 1))

\* text[start_pos:end_pos].strip() for the match of keyword at p
SectionContent(text, low, keyword, p) ==
    LET start_pos == PatternMatchEnd(low, keyword, p)
    IN  Strip(SubSeq(text, start_pos, SectionEnd(low, start_pos) - 1))

\* the inner loop: for match in matches
RECURSIVE AddMatches(_, _, _, _, _)
AddMatches(secs, text, low, keyword, matches) ==
    IF matches = <<>> THEN secs
    ELSE AddMatches(DictSet(secs,
                            Replace(Lower(keyword), " ", "_"),
                            SectionContent(text, low, keyword, Head(matches))),
                    text, low, keyword, Tail(matches))

\* the outer loop: for keyword in all_keywords, from the n-th keyword on
RECURSIVE AddKeywords(_, _, _, _)
AddKeywords(secs, text, low, n) ==
    IF n > Len(all_keywords) THEN secs
    ELSE AddKeywords(AddMatches(secs, text, low, all_keywords[n],
                                FindIter(low, all_keywords[n], 1)),
                     text, low, n + 1)

extract_sections_from_content(raw) == AddKeywords(<<>>, raw, Lower(raw), 1)

(***************************************************************************)
(* The report types and their schemas.                                     *)
(***************************************************************************)
\* the values of the enumeration AnalysisType
AnalysisType == {"system_analysis", "destructive_testing", "prr"}

\* a tag that is no member of AnalysisType
UnsupportedTag == "unsupported"

Schema(type) ==
    CASE type = "system_analysis"     -> SystemAnalysisSchema
      [] type = "destructive_testing" -> DestructiveTestingSchema
      [] type = "prr"                 -> PRRSchema

FieldsOf(schema) == {schema[n].field : n \in 1..Len(schema)}

KeysOf(schema, f) == schema[CHOOSE n \in 1..Len(schema) : schema[n].field = f].possible_keys

\* structured_data = {field: extract_section(sections, [...]), ...}
MapSections(schema, secs) ==
    [f \in FieldsOf(schema) |-> extract_section(secs, KeysOf(schema, f))]

\* AnyValue with a slip: all() in place of any()
AnyValueAll(data) == \A f \in DOMAIN data : data[f] # <<>>

\* any(structured_data.values()): some value is a non-empty string
AnyValue(data) == \E f \in DOMAIN data : data[f] # <<>>

\* RawTextData with a slip: only the first field is written
RawTextDataFirstOnly(schema, raw) == [f \in {schema[1].field} |-> raw]

\* the structure that holds the raw text in the first field
RawTextData(schema, raw) ==
    [f \in FieldsOf(schema) |-> IF f = schema[1].field THEN raw ELSE <<>>]

\* StructuredData with a slip: the raw text is not used when all fields are empty
StructuredDataNoRawText(type, secs, raw) == MapSections(Schema(type), secs)

\* structured_data of a supported type, before "sections" is added
StructuredData(type, secs, raw) ==
    LET data == MapSections(Schema(type), secs)
    IN  IF AnyValue(data) THEN data ELSE RawTextData(Schema(type), raw)

\* WithSections with a slip: only the sections whose body went to a field are attached
WithSectionsUsed(data, secs) ==
    [k \in DOMAIN data \cup {"sections"} |->
        IF k = "sections"
        THEN SelectSeq(secs, LAMBDA e : \E f \in DOMAIN data : data[f] = e.body)
        ELSE data[k]]

\* structured_data["sections"] = sections
WithSections(data, secs) ==
    [k \in DOMAIN data \cup {"sections"} |-> IF k = "sections" THEN secs ELSE data[k]]

(***************************************************************************)
(* The inputs.                                                             *)
(***************************************************************************)
SampleLines == {
    <<"A", "R", "C", "H", "I", "T", "E", "C", "T", "U", "R", "E", ":">>,
    <<"S", "E", "C", "U", "R", "I", "T", "Y", ":">>,
    <<"T", "L", "S", " ", "e", "v", "e", "r", "y", "w", "h", "e", "r", "e", ".">>,
    <<"d", "e", "p", "e", "n", "d", "e", "n", "c", "y", ":", " ", "a", "u", "t", "h">>,
    <<"h", "y", "p", "o", "t", "h", "e", "s", "i", "s", ":", " ", "o", "u", "t", "a", "g", "e">>,
    <<"d", "e", "p", "e", "n", "d", "e", "n", "c", "y", ":", " ", "s", "e", "c", "u", "r", "i", "t", "y">>,
    <<>> }

SectionLines == {
    <<"A", "R", "C", "H", "I", "T", "E", "C", "T", "U", "R", "E", ":">>,
    <<"S", "E", "C", "U", "R", "I", "T", "Y", ":">>,
    <<"T", "L", "S", " ", "e", "v", "e", "r", "y", "w", "h", "e", "r", "e", ".">>,
    <<>> }

LineSeqs(lineset, maxlen) == UNION {[1..n -> lineset] : n \in 1..maxlen}

Inputs ==
    {Join(ls) : ls \in LineSeqs(SampleLines, MaxLines)
                       \cup LineSeqs(SectionLines, MaxSectionLines)}

Tags == AnalysisType \cup {UnsupportedTag}

(***************************************************************************)
(* State: one call, from analyze_diagram or of parse_analysis_result       *)
(* itself.                                                                 *)
(***************************************************************************)
VARIABLES
    text,             \* the raw text
    analysis_type,    \* the report type tag
    pc,               \* "start", "parse", "scan", "saved", "sections", "map", "done"
    lines,            \* text.split('\n')
    i,                \* the index of the next line of the scan loop
    sections,         \* the sections dict
    current_section,
    current_content,
    outcome,          \* "pending", "returned", "raised"
    result,           \* the returned dict
    overwritten,      \* history: the lines of the bodies that a later assignment replaced
    fallback_runs,    \* history: the calls of extract_sections_from_content
    steps,            \* history: the steps of parse_analysis_result taken
    classified,       \* history: for each line scanned, whether it was taken as a heading
    segmented,        \* history: the sections dict as the scan left it (lines 697-727)
    mapper_runs,      \* history: the times the fields of a type were mapped
    calls,            \* the frames of several calls of parse_analysis_result
    alone,            \* history: for each input of calls, the frames of its run alone
    possible_keys,    \* the argument possible_keys of a call of extract_section
    analysis_results, \* routers/analysis.py: the in-memory dict of the stored analyses
    uploads,          \* the files that exist in UPLOAD_DIR
    result_files,     \* the files that exist in RESULTS_DIR
    issued,           \* the number of uuid4() values issued
    response,         \* the request handled last, with the status of its answer
    temp_files,       \* mcp_server.py: the number of temporary files left on disk
    handled,          \* history: the requests handled by analyze_architecture
    analyzed          \* history: the calls of analyze_diagram by analyze_architecture

vars == <<text, analysis_type, pc, lines, i, sections, current_section,
          current_content, outcome, result, overwritten, fallback_runs, steps,
          classified, segmented, mapper_runs, calls, alone, possible_keys,
          analysis_results, uploads, result_files, issued, response, temp_files,
          handled, analyzed>>

locals == <<lines, i, sections, current_section, current_content>>

history == <<overwritten, fallback_runs>>

audit == <<classified, segmented, mapper_runs>>

\* the state of the two servers
server == <<analysis_results, uploads, result_files, issued, response, temp_files,
            handled, analyzed>>

\* the state of the other specifications of this module
others == <<calls, alone, possible_keys, server>>

\* an analysis id: str(uuid4()), the base, with "_" and the type after it in
\* create_all_analysis; the uuids are numbered in the order of their issue
AnalysisId(base, suffix) == [base |-> base, suffix |-> suffix]

\* response before any request
NoResponse == [op |-> "none", user |-> "none", id |-> AnalysisId(0, "none"), status |-> 0]

\* no request has reached a server: the store and the directories are empty
ServerIdle ==
    /\ analysis_results = <<>>
    /\ uploads = {}
    /\ result_files = {}
    /\ issued = 0
    /\ response = NoResponse
    /\ temp_files = 0
    /\ handled = 0
    /\ analyzed = 0

Init ==
    /\ text \in Inputs
    /\ analysis_type \in Tags
    /\ pc = "start"
    /\ lines = <<>>
    /\ i = 0
    /\ sections = <<>>
    /\ current_section = <<>>
    /\ current_content = <<>>
    /\ outcome = "pending"
    /\ result = <<>>
    /\ overwritten = 0
    /\ fallback_runs = 0
    /\ steps = 0
    /\ classified = <<>>
    /\ segmented = <<>>
    /\ mapper_runs = 0
    /\ calls = <<>>
    /\ alone = <<>>
    /\ possible_keys = <<>>
    /\ ServerIdle

(***************************************************************************)
(* analyze_diagram: the selection of the prompt raises ValueError for a    *)
(* tag that is none of the three types; otherwise the response text is     *)
(* handed to parse_analysis_result.                                        *)
(***************************************************************************)
\* analyze_diagram with a slip: the final else with its raise is missing
analyze_diagram_no_raise ==
    /\ pc = "start"
    /\ pc' = "parse"
    /\ UNCHANGED <<text, analysis_type, locals, outcome, result, history, steps, audit, others>>

analyze_diagram ==
    /\ pc = "start"
    /\ IF analysis_type \in AnalysisType
       THEN /\ pc' = "parse"
            /\ outcome' = outcome
       ELSE /\ pc' = "done"
            /\ outcome' = "raised"
    /\ UNCHANGED <<text, analysis_type, locals, result, history, steps, audit, others>>

(***************************************************************************)
(* parse_analysis_result                                                   *)
(***************************************************************************)
\* ParseBegin with a slip: the test for empty text is missing
ParseBeginNoEmptyTest ==
    /\ pc \in {"start", "parse"}
    /\ sections' = <<>>
    /\ current_section' = overview
    /\ current_content' = <<>>
    /\ lines' = Split(text)
    /\ i' = 1
    /\ pc' = "scan"
    /\ steps' = steps + 1
    /\ UNCHANGED <<text, analysis_type, outcome, result, history, audit, others>>

\* the entry: the test for empty text and the initialisation of the scan
ParseBegin ==
    /\ pc \in {"start", "parse"}
    /\ IF text = <<>>
       THEN /\ result' = [k \in {"text"} |-> NoDataMessage]
            /\ outcome' = "returned"
            /\ pc' = "done"
            /\ UNCHANGED locals
       ELSE /\ sections' = <<>>
            /\ current_section' = overview
            /\ current_content' = <<>>
            /\ lines' = Split(text)
            /\ i' = 1
            /\ pc' = "scan"
            /\ UNCHANGED <<outcome, result>>
    /\ steps' = steps + 1
    /\ UNCHANGED <<text, analysis_type, history, audit, others>>

\* Flushed with a slip: the section is saved also when the buffer is empty
FlushedAlways(secs, name, content) == DictSet(secs, name, Join(content))

\* the sections dict after "if current_content: sections[current_section] = ..."
Flushed(secs, name, content) ==
    IF content # <<>> THEN DictSet(secs, name, Join(content)) ELSE secs

\* len(s.split('\n'))
LineCount(s) == Cardinality({k \in 1..Len(s) : s[k] = NL}) + 1

\* the lines of the body that this assignment replaces
Replaced(secs, name, content) ==
    IF content # <<>> /\ HasKey(secs, name) THEN LineCount(DictGet(secs, name)) ELSE 0

\* one iteration of the loop on a heading line
ScanHeading ==
    /\ pc = "scan"
    /\ i <= Len(lines)
    /\ IsHeading(lines[i])
    /\ sections' = Flushed(sections, current_section, current_content)
    /\ current_content' = <<>>
    /\ current_section' = SectionName(lines[i], Len(sections'))
    /\ i' = i + 1
    /\ overwritten' = overwritten + Replaced(sections, current_section, current_content)
    /\ steps' = steps + 1
    /\ classified' = Append(classified, TRUE)
    /\ UNCHANGED <<text, analysis_type, pc, lines, outcome, result, fallback_runs,
                   segmented, mapper_runs, others>>

\* one iteration of the loop on any other line
ScanContent ==
    /\ pc = "scan"
    /\ i <= Len(lines)
    /\ ~IsHeading(lines[i])
    /\ current_content' = Append(current_content, lines[i])
    /\ i' = i + 1
    /\ steps' = steps + 1
    /\ classified' = Append(classified, FALSE)
    /\ UNCHANGED <<text, analysis_type, pc, lines, sections, current_section, outcome,
                   result, history, segmented, mapper_runs, others>>

\* ScanDone with a slip: the end of the loop is tested one line late
ScanDoneLate == i > Len(lines) + 1

\* the loop has consumed every line
ScanDone == i > Len(lines)

\* after the loop: "if current_content: sections[current_section] = ..."
SaveLast ==
    /\ pc = "scan"
    /\ ScanDone
    /\ sections' = Flushed(sections, current_section, current_content)
    /\ overwritten' = overwritten + Replaced(sections, current_section, current_content)
    /\ pc' = "saved"
    /\ steps' = steps + 1
    /\ UNCHANGED <<text, analysis_type, lines, i, current_section, current_content,
                   outcome, result, fallback_runs, audit, others>>

\* DefaultSection with a slip: the two lines are missing, an empty dict stays empty
DefaultSectionNever ==
    /\ pc = "saved"
    /\ sections' = sections
    /\ segmented' = sections'
    /\ pc' = "sections"
    /\ steps' = steps + 1
    /\ UNCHANGED <<text, analysis_type, lines, i, current_section, current_content,
                   outcome, result, history, classified, mapper_runs, others>>

\* "if not sections: sections["full_text"] = text"
DefaultSection ==
    /\ pc = "saved"
    /\ sections' = IF sections = <<>> THEN DictSet(sections, full_text, text) ELSE sections
    /\ segmented' = sections'
    /\ pc' = "sections"
    /\ steps' = steps + 1
    /\ UNCHANGED <<text, analysis_type, lines, i, current_section, current_content,
                   outcome, result, history, classified, mapper_runs, others>>

\* NeedsFallback with a slip: only an empty dict counts
NeedsFallbackEmptyOnly(secs) == Len(secs) < 1

\* "if len(sections) <= 1" in the branch of a supported type
NeedsFallback(secs) == Len(secs) <= 1

\* FallbackSections with a slip: an empty result of the fallback is not used
FallbackSectionsIfFound ==
    /\ pc = "sections"
    /\ analysis_type \in AnalysisType
    /\ NeedsFallback(sections)
    /\ sections' = IF extract_sections_from_content(text) = <<>> THEN sections
                   ELSE extract_sections_from_content(text)
    /\ fallback_runs' = fallback_runs + 1
    /\ pc' = "map"
    /\ steps' = steps + 1
    /\ UNCHANGED <<text, analysis_type, lines, i, current_section, current_content,
                   outcome, result, overwritten, audit, others>>

\* ... sections = extract_sections_from_content(text)
FallbackSections ==
    /\ pc = "sections"
    /\ analysis_type \in AnalysisType
    /\ NeedsFallback(sections)
    /\ sections' = extract_sections_from_content(text)
    /\ fallback_runs' = fallback_runs + 1
    /\ pc' = "map"
    /\ steps' = steps + 1
    /\ UNCHANGED <<text, analysis_type, lines, i, current_section, current_content,
                   outcome, result, overwritten, audit, others>>

\* ... or the sections of the scan are kept
KeepSections ==
    /\ pc = "sections"
    /\ analysis_type \in AnalysisType
    /\ ~NeedsFallback(sections)
    /\ pc' = "map"
    /\ steps' = steps + 1
    /\ UNCHANGED <<text, analysis_type, locals, outcome, result, history, audit, others>>

\* the fields of the type, the raw text when all are empty, "sections", return
MapFields ==
    /\ pc = "map"
    /\ result' = WithSections(StructuredData(analysis_type, sections, text), sections)
    /\ outcome' = "returned"
    /\ pc' = "done"
    /\ mapper_runs' = mapper_runs + 1
    /\ steps' = steps + 1
    /\ UNCHANGED <<text, analysis_type, locals, history, classified, segmented, others>>

\* the else branch: structured_data = {"text": text}, "sections", return
ReturnText ==
    /\ pc = "sections"
    /\ analysis_type \notin AnalysisType
    /\ result' = WithSections([k \in {"text"} |-> text], sections)
    /\ outcome' = "returned"
    /\ pc' = "done"
    /\ steps' = steps + 1
    /\ UNCHANGED <<text, analysis_type, locals, history, audit, others>>

Next ==
    \/ analyze_diagram
    \/ ParseBegin
    \/ ScanHeading
    \/ ScanContent
    \/ SaveLast
    \/ DefaultSection
    \/ FallbackSections
    \/ KeepSections
    \/ MapFields
    \/ ReturnText

Spec == Init /\ [][Next]_vars

(***************************************************************************)
(* Properties.                                                             *)
(***************************************************************************)
\* parse_analysis_result has returned for one of the three report types
ReturnedSupported ==
    pc = "done" /\ outcome = "returned" /\ analysis_type \in AnalysisType

\* the canonical fields of the type of this call
CanonicalFields == FieldsOf(Schema(analysis_type))

\* v is a string
IsString(v) == DOMAIN v = 1..Len(v) /\ \A k \in 1..Len(v) : v[k] \in STRING

\* the keys of d are the canonical fields and "sections", the fields hold strings
CanonicalShape(d) ==
    /\ DOMAIN d = CanonicalFields \cup {"sections"}
    /\ \A f \in CanonicalFields : IsString(d[f])

StepsLeft ==
    CASE pc \in {"start", "parse"} -> Len(text) + 6
      [] pc = "scan"               -> (Len(lines) + 1 - i) + 4
      [] pc = "saved"              -> 3
      [] pc = "sections"           -> 2
      [] pc = "map"                -> 1
      [] pc = "done"               -> 0

\* some step of the call is possible: the guards of the actions
CanStep ==
    \/ pc \in {"start", "parse"}
    \/ pc = "scan" /\ (i <= Len(lines) \/ ScanDone)
    \/ pc \in {"saved", "sections", "map"}

\* C3: for every input text and each of the three report types,
\* parse_analysis_result terminates and returns a mapping: until it has returned a
\* step is possible, the steps taken and the steps left never exceed the length of
\* the text plus 6, and nothing raises.
C3_AlwaysReturns ==
    analysis_type \in AnalysisType =>
        /\ outcome # "raised"
        /\ (pc # "done" => CanStep)
        /\ steps + StepsLeft <= Len(text) + 6
        /\ (pc = "done" => outcome = "returned" /\ DOMAIN result # {})

\* a text of headings only: no section is found, the keyword fallback finds nothing
C3_Witness ==
    /\ ReturnedSupported
    /\ lines # <<>>
    /\ \A k \in 1..Len(lines) : IsHeading(lines[k])
    /\ result["sections"] = <<>>

\* C4 as stated: for a tag that is none of the three types the pipeline ends in an
\* error before any line is segmented, and never returns a mapping.
C4_AsStated ==
    analysis_type \notin AnalysisType =>
        /\ pc \notin {"scan", "saved", "sections", "map"}
        /\ outcome # "returned"

\* C4, amended: for a tag that is none of the three types analyze_diagram raises
\* before parse_analysis_result is called, so before any line is segmented;
\* parse_analysis_result called with such a tag raises nothing: it segments the text
\* and returns {"text": the raw text, "sections": the sections of the scan}, or the
\* "No analysis data available" mapping for empty text, without keyword fallback
\* and without mapping any field.
C4_UnsupportedTag ==
    analysis_type \notin AnalysisType =>
        /\ pc \notin {"parse", "map"}
        /\ fallback_runs = 0
        /\ (outcome = "raised" => pc = "done" /\ lines = <<>> /\ sections = <<>>)
        /\ (pc = "done" /\ outcome = "returned" =>
                IF text = <<>>
                THEN DOMAIN result = {"text"} /\ result["text"] = NoDataMessage
                ELSE /\ DOMAIN result = {"text", "sections"}
                     /\ result["text"] = text
                     /\ result["sections"] = sections
                     /\ sections # <<>>)

C4_Witness ==
    /\ analysis_type \notin AnalysisType
    /\ pc = "done"
    /\ outcome = "returned"
    /\ Len(lines) > 1
    /\ result["text"] = text
    /\ Len(result["sections"]) > 1

\* the lines held in all bodies of the mapping
RECURSIVE BodyLines(_)
BodyLines(secs) ==
    IF secs = <<>> THEN 0 ELSE LineCount(Head(secs).body) + BodyLines(Tail(secs))

\* the lines classified as headings
HeadingCount(ls) == Cardinality({k \in 1..Len(ls) : IsHeading(ls[k])})

\* C5 as stated: after the scan loop and its last save, the lines held in the
\* bodies plus the heading lines are the lines of the input.
C5_AsStated ==
    pc = "saved" => BodyLines(sections) + HeadingCount(lines) = Len(lines)

\* C5, amended: at every point of the scan, the lines held in the bodies, the lines
\* in the buffer, the heading lines seen and the lines of the bodies that a later
\* body of the same name replaced are the lines read so far; so after the loop the
\* bodies and the headings account for every line exactly when no body was replaced,
\* and for fewer lines otherwise: a line is never duplicated, and is lost only by
\* last-write-wins.
C5_LinesAccounted ==
    pc \in {"scan", "saved"} =>
        /\ BodyLines(sections) + Len(current_content) * (IF pc = "scan" THEN 1 ELSE 0)
             + HeadingCount(SubSeq(lines, 1, i - 1)) + overwritten = i - 1
        /\ (pc = "saved" => i - 1 = Len(lines))
        /\ (pc = "saved" /\ overwritten = 0 =>
                BodyLines(sections) + HeadingCount(lines) = Len(lines))
        /\ (pc = "saved" /\ overwritten > 0 =>
                BodyLines(sections) + HeadingCount(lines) < Len(lines))

C5_Witness ==
    /\ pc = "saved"
    /\ overwritten > 0
    /\ Len(sections) > 1
    /\ BodyLines(sections) + HeadingCount(lines) + overwritten = Len(lines)

\* the first canonical field of the type of this call
FirstField == Schema(analysis_type)[1].field

\* C6: for each of the three report types and every non-empty text, if the synonym
\* matching leaves every canonical field empty, the first canonical field of the
\* result is the entire raw text and every other field is empty; so at least one
\* canonical field of a result is non-empty.
C6_RawTextFallback ==
    (ReturnedSupported /\ text # <<>>) =>
        /\ (~AnyValue(MapSections(Schema(analysis_type), sections)) =>
                /\ result[FirstField] = text
                /\ \A f \in CanonicalFields \ {FirstField} : result[f] = <<>>)
        /\ FirstField \in {"components", "dependency_analysis", "executive_summary"}
        /\ \E f \in CanonicalFields : result[f] # <<>>

\* sections were found, but none matches a possible key of the type
C6_Witness ==
    /\ ReturnedSupported
    /\ analysis_type = "destructive_testing"
    /\ Len(sections) > 1
    /\ ~AnyValue(MapSections(Schema(analysis_type), sections))
    /\ result["dependency_analysis"] = text

\* no line of the text is a heading
HeadingFree(raw) == \A k \in 1..Len(Split(raw)) : ~IsHeading(Split(raw)[k])

\* no keyword of the vocabulary occurs in the text, in any case
KeywordFree(raw) ==
    \A n \in 1..Len(all_keywords) : ~Contains(Lower(raw), all_keywords[n])

\* C7: for PRR and a non-empty text without heading line and without any keyword of
\* the vocabulary, executive_summary is the full text and every other canonical
\* field is empty (one section from the scan, nothing from the keyword fallback,
\* then the raw text).
C7_ProsePRR ==
    (ReturnedSupported /\ analysis_type = "prr" /\ text # <<>>
        /\ HeadingFree(text) /\ KeywordFree(text)) =>
        /\ fallback_runs = 1
        /\ result["sections"] = <<>>
        /\ result["executive_summary"] = text
        /\ \A f \in CanonicalFields \ {"executive_summary"} : result[f] = <<>>

C7_Witness ==
    /\ ReturnedSupported
    /\ analysis_type = "prr"
    /\ Len(lines) > 1
    /\ \E k \in 1..Len(lines) : Len(lines[k]) > 0
    /\ HeadingFree(text)
    /\ KeywordFree(text)
    /\ result["executive_summary"] = text

ARCHITECTURE_line == <<"A", "R", "C", "H", "I", "T", "E", "C", "T", "U", "R", "E", ":">>

SECURITY_line == <<"S", "E", "C", "U", "R", "I", "T", "Y", ":">>

\* the lines are "ARCHITECTURE:", a body, "SECURITY:" (line m), a body; the bodies are
\* one or more lines that are no headings
C8_Input(m) ==
    /\ m \in 3..(Len(lines) - 1)
    /\ lines[1] = ARCHITECTURE_line
    /\ lines[m] = SECURITY_line
    /\ \A k \in (2..Len(lines)) \ {m} : ~IsHeading(lines[k])

\* C8: for SystemAnalysis and a text made of the heading line "ARCHITECTURE:", body
\* lines, the heading line "SECURITY:" and body lines, components contains the body
\* under ARCHITECTURE, security contains the body under SECURITY, and every other
\* canonical field is empty.
C8_ArchitectureSecurity ==
    (ReturnedSupported /\ analysis_type = "system_analysis") =>
        \A m \in 1..Len(lines) :
            C8_Input(m) =>
                /\ Contains(result["components"], Join(SubSeq(lines, 2, m - 1)))
                /\ Contains(result["security"], Join(SubSeq(lines, m + 1, Len(lines))))
                /\ \A f \in CanonicalFields \ {"components", "security"} : result[f] = <<>>

\* the example of the specification, with one body line for both bodies
C8_Witness ==
    /\ ReturnedSupported
    /\ analysis_type = "system_analysis"
    /\ Len(lines) = 5
    /\ C8_Input(3)
    /\ lines[2] # <<>>
    /\ lines[4] # <<>>
    /\ lines[5] = <<>>
    /\ result["components"] = lines[2]
    /\ result["security"] = lines[4] \o <<NL>>

dependency_prefix == <<"d", "e", "p", "e", "n", "d", "e", "n", "c", "y", ":">>

hypothesis_prefix == <<"h", "y", "p", "o", "t", "h", "e", "s", "i", "s", ":">>

\* a text without headings: lines that begin with "dependency:" or "hypothesis:", each
\* with text after it and ended by a newline, and both kinds occur
C9_Input ==
    /\ Len(lines) >= 3
    /\ lines[Len(lines)] = <<>>
    /\ \A k \in 1..(Len(lines) - 1) :
          /\ ~IsHeading(lines[k])
          /\ \/ StartsWith(lines[k], dependency_prefix) /\ Len(lines[k]) > Len(dependency_prefix)
             \/ StartsWith(lines[k], hypothesis_prefix) /\ Len(lines[k]) > Len(hypothesis_prefix)
    /\ \E k \in 1..(Len(lines) - 1) : StartsWith(lines[k], dependency_prefix)
    /\ \E k \in 1..(Len(lines) - 1) : StartsWith(lines[k], hypothesis_prefix)

\* C9 as stated: for DestructiveTesting and such a text the keyword fallback runs and
\* dependency_analysis and hypothesis_generation are both non-empty.
C9_AsStated ==
    (ReturnedSupported /\ analysis_type = "destructive_testing" /\ C9_Input) =>
        /\ fallback_runs = 1
        /\ result["dependency_analysis"] # <<>>
        /\ result["hypothesis_generation"] # <<>>

\* C9, amended: for DestructiveTesting and such a text the keyword fallback runs and
\* finds the sections "dependency" and "hypothesis", and every section it finds has
\* an empty body (a body starts after the line of its keyword and ends where the
\* next keyword line starts); so no field gets a non-empty body, dependency_analysis
\* is the entire raw text and hypothesis_generation, like every other field, is
\* empty.
C9_KeywordLines ==
    (ReturnedSupported /\ analysis_type = "destructive_testing" /\ C9_Input) =>
        /\ fallback_runs = 1
        /\ HasKey(result["sections"], <<"d", "e", "p", "e", "n", "d", "e", "n", "c", "y">>)
        /\ HasKey(result["sections"], <<"h", "y", "p", "o", "t", "h", "e", "s", "i", "s">>)
        /\ \A k \in 1..Len(result["sections"]) : result["sections"][k].body = <<>>
        /\ result["dependency_analysis"] = text
        /\ \A f \in CanonicalFields \ {"dependency_analysis"} : result[f] = <<>>

C9_Witness ==
    /\ ReturnedSupported
    /\ analysis_type = "destructive_testing"
    /\ C9_Input
    /\ StartsWith(lines[1], dependency_prefix)
    /\ StartsWith(lines[2], hypothesis_prefix)
    /\ result["dependency_analysis"] = text

\* the body under the heading at line h: the lines up to the next heading
BodyAfter(h) ==
    LET next == IF \E k \in (h + 1)..Len(lines) : IsHeading(lines[k])
                THEN CHOOSE k \in (h + 1)..Len(lines) :
                         IsHeading(lines[k]) /\ \A m \in (h + 1)..(k - 1) : ~IsHeading(lines[m])
                ELSE Len(lines) + 1
    IN  SubSeq(lines, h + 1, next - 1)

\* lines g and h are the two heading lines of one section name, with different bodies
C10_Input(g, h) ==
    /\ g < h
    /\ IsHeading(lines[g])
    /\ IsHeading(lines[h])
    /\ SectionName(lines[g], 0) = SectionName(lines[h], 0)
    /\ \A k \in (1..Len(lines)) \ {g, h} :
          IsHeading(lines[k]) => SectionName(lines[k], 0) # SectionName(lines[h], 0)
    /\ BodyAfter(g) # <<>>
    /\ BodyAfter(h) # <<>>
    /\ BodyAfter(g) # BodyAfter(h)

\* under the name of the heading at line h, d holds the body that follows line h
HoldsBodyOf(d, h) ==
    /\ HasKey(d, SectionName(lines[h], 0))
    /\ DictGet(d, SectionName(lines[h], 0)) = Join(BodyAfter(h))

\* C10 as stated: for every text with two heading lines of one section name and
\* different bodies, "sections" maps the name to the body of the second, for each of
\* the three report types.
C10_AsStated ==
    ReturnedSupported =>
        \A g, h \in 1..Len(lines) : C10_Input(g, h) => HoldsBodyOf(result["sections"], h)

\* C10, amended: for every such text the mapping of the scan maps the name to the
\* body of the second heading, and so does "sections" whenever the scan found two or
\* more sections; when it found one, the keyword fallback replaces the mapping and
\* "sections" holds what the fallback found.
C10_LastWriteWins ==
    \A g, h \in 1..Len(lines) :
        C10_Input(g, h) =>
            /\ (pc = "saved" => HoldsBodyOf(sections, h))
            /\ (ReturnedSupported /\ fallback_runs = 0 => HoldsBodyOf(result["sections"], h))
            /\ (ReturnedSupported /\ fallback_runs # 0 =>
                    result["sections"] = extract_sections_from_content(text))

C10_Witness ==
    /\ ReturnedSupported
    /\ fallback_runs = 0
    /\ Len(lines) = 5
    /\ C10_Input(2, 4)
    /\ Len(result["sections"]) = 2
    /\ HoldsBodyOf(result["sections"], 4)
    /\ BodyAfter(2) # <<>>

(***************************************************************************)
(* Several calls of parse_analysis_result in one process, their steps      *)
(* interleaved in every order: analyze_diagram_all calls it once per type, *)
(* and the handlers of several requests may run it at once. Each call has  *)
(* its own frame: the parameters and the locals of the function.           *)
(***************************************************************************)
MaxCalls == 3

\* the inputs of the calls: a text the scan segments, and a text that takes the
\* keyword fallback
CallInputs == <<
    [text |-> Join(<< <<"d", "e", "p", "e", "n", "d", "e", "n", "c", "y", ":", " ", "a", "u", "t", "h">>,
                      <<"S", "E", "C", "U", "R", "I", "T", "Y", ":">>,
                      <<"T", "L", "S", " ", "e", "v", "e", "r", "y", "w", "h", "e", "r", "e", ".">> >>),
     analysis_type |-> "system_analysis"],
    [text |-> Join(<< <<"h", "y", "p", "o", "t", "h", "e", "s", "i", "s", ":", " ", "o", "u", "t", "a", "g", "e">>,
                      <<"T", "L", "S", " ", "e", "v", "e", "r", "y", "w", "h", "e", "r", "e", ".">> >>),
     analysis_type |-> "destructive_testing"] >>

\* the frame of a call that has not begun; after is history: the calls that had
\* returned when this call began
NewFrame(input) ==
    [text |-> input.text, analysis_type |-> input.analysis_type, pc |-> "parse",
     lines |-> <<>>, i |-> 0, sections |-> <<>>, current_section |-> <<>>,
     current_content |-> <<>>, result |-> <<>>, after |-> 0]

\* the entry: the test for empty text and the initialisation of the locals
BeginFrame(f) ==
    IF f.text = <<>>
    THEN [f EXCEPT !.result = [k \in {"text"} |-> NoDataMessage], !.pc = "done"]
    ELSE [f EXCEPT !.sections = <<>>, !.current_section = overview,
                   !.current_content = <<>>, !.lines = Split(f.text), !.i = 1,
                   !.pc = "scan"]

\* one iteration of the scan loop, or the save after the loop
ScanFrame(f) ==
    IF f.i > Len(f.lines)
    THEN [f EXCEPT !.sections = Flushed(f.sections, f.current_section, f.current_content),
                   !.pc = "saved"]
    ELSE IF IsHeading(f.lines[f.i])
    THEN LET saved == Flushed(f.sections, f.current_section, f.current_content)
         IN  [f EXCEPT !.sections = saved, !.current_content = <<>>,
                       !.current_section = SectionName(f.lines[f.i], Len(saved)),
                       !.i = f.i + 1]
    ELSE [f EXCEPT !.current_content = Append(f.current_content, f.lines[f.i]),
                   !.i = f.i + 1]

\* "if not sections: sections["full_text"] = text"
DefaultFrame(f) ==
    [f EXCEPT !.sections = IF f.sections = <<>> THEN DictSet(f.sections, full_text, f.text)
                           ELSE f.sections,
              !.pc = "sections"]

\* "if len(sections) <= 1: sections = extract_sections_from_content(text)"
FallbackFrame(f) ==
    [f EXCEPT !.sections = IF NeedsFallback(f.sections)
                           THEN extract_sections_from_content(f.text)
                           ELSE f.sections,
              !.pc = "map"]

\* structured_data, "sections", return
MapFrame(f) ==
    [f EXCEPT !.result = WithSections(StructuredData(f.analysis_type, f.sections, f.text),
                                      f.sections),
              !.pc = "done"]

\* the next step of the call of frame f
CallStep(f) ==
    CASE f.pc = "parse"    -> BeginFrame(f)
      [] f.pc = "scan"     -> ScanFrame(f)
      [] f.pc = "saved"    -> DefaultFrame(f)
      [] f.pc = "sections" -> FallbackFrame(f)
      [] f.pc = "map"      -> MapFrame(f)

\* the frames of a call that runs alone, from frame f to its return
RECURSIVE RunAlone(_)
RunAlone(f) == IF f.pc = "done" THEN {f} ELSE {f} \cup RunAlone(CallStep(f))

\* for each input, the frames of the call of it that runs alone
AloneFrames == [n \in 1..Len(CallInputs) |-> RunAlone(NewFrame(CallInputs[n]))]

\* Frame with a slip: sections is one dict of the module, here the dict of call 1
FrameSharedSections(cs, c) == [cs[c] EXCEPT !.sections = cs[1].sections]

\* Frame with a slip: current_content is one list of the module, here the list of call 1
FrameSharedContent(cs, c) == [cs[c] EXCEPT !.current_content = cs[1].current_content]

\* the locals a step of call c works on: those of its own frame
Frame(cs, c) == cs[c]

\* the calls that have returned
Returned(cs) == {c \in DOMAIN cs : cs[c].pc = "done"}

\* one step of call c
Step(c) ==
    /\ calls[c].pc # "done"
    /\ calls' = [calls EXCEPT ![c] =
                    [CallStep(Frame(calls, c)) EXCEPT
                        !.after = IF calls[c].pc = "parse"
                                  THEN Cardinality(Returned(calls)) ELSE @]]
    /\ UNCHANGED <<text, analysis_type, pc, locals, outcome, result, history, steps,
                   audit, alone, possible_keys, server>>

\* the calls are numbered in the order of their inputs: the numbers carry no meaning
CallsInit ==
    /\ \E pick \in [1..MaxCalls -> 1..Len(CallInputs)] :
          /\ \A c \in 1..(MaxCalls - 1) : pick[c] <= pick[c + 1]
          /\ calls = [c \in 1..MaxCalls |-> NewFrame(CallInputs[pick[c]])]
    /\ alone = AloneFrames
    /\ text = <<>>
    /\ analysis_type = "system_analysis"
    /\ pc = "calls"
    /\ lines = <<>>
    /\ i = 0
    /\ sections = <<>>
    /\ current_section = <<>>
    /\ current_content = <<>>
    /\ outcome = "pending"
    /\ result = <<>>
    /\ overwritten = 0
    /\ fallback_runs = 0
    /\ steps = 0
    /\ classified = <<>>
    /\ segmented = <<>>
    /\ mapper_runs = 0
    /\ possible_keys = <<>>
    /\ ServerIdle

CallsNext == \E c \in 1..MaxCalls : Step(c)

Calls == CallsInit /\ [][CallsNext]_vars

\* the input of the call of frame f
InputOf(f) ==
    CHOOSE n \in 1..Len(CallInputs) :
        CallInputs[n].text = f.text /\ CallInputs[n].analysis_type = f.analysis_type

ScanEnded == pc \in {"sections", "map"} \/ (pc = "done" /\ lines # <<>>)

\* C14: for each of the three report types, after the scan exactly one of two paths is
\* taken: if the mapping of the scan has two or more sections, it is what the fields
\* are mapped from and the keyword fallback never runs; if it has at most one section,
\* the keyword fallback runs once and its result, even when empty, replaces the
\* mapping before the fields are mapped. The fields are mapped exactly once, as the
\* last step, on both paths.
C14_TwoPaths ==
    (analysis_type \in AnalysisType /\ ScanEnded) =>
        /\ Len(segmented) >= 1
        /\ (pc = "sections" => fallback_runs = 0 /\ sections = segmented)
        /\ (pc \in {"map", "done"} =>
                IF Len(segmented) >= 2
                THEN fallback_runs = 0 /\ sections = segmented
                ELSE fallback_runs = 1 /\ sections = extract_sections_from_content(text))
        /\ mapper_runs = (IF pc = "done" THEN 1 ELSE 0)
        /\ (pc = "done" =>
                /\ outcome = "returned"
                /\ \A f \in CanonicalFields :
                       result[f] = StructuredData(analysis_type, sections, text)[f])

\* the scan left one section, the keyword fallback found nothing, and the fields were
\* mapped from the empty mapping
C14_Witness ==
    /\ ReturnedSupported
    /\ ScanEnded
    /\ Len(segmented) = 1
    /\ segmented[1].body # <<>>
    /\ fallback_runs = 1
    /\ sections = <<>>
    /\ mapper_runs = 1
    /\ result["sections"] = <<>>

\* the lines the scan has taken as headings
HeadingsSeen == Cardinality({k \in 1..Len(classified) : classified[k]})

\* the section name in force at line k: that of the last heading before it
NameAt(k) ==
    IF \E h \in 1..(k - 1) : IsHeading(lines[h])
    THEN SectionName(lines[CHOOSE h \in 1..(k - 1) :
                               IsHeading(lines[h]) /\ \A m \in (h + 1)..(k - 1) : ~IsHeading(lines[m])],
                     0)
    ELSE overview

\* the section names under which the scan stores body lines
StoredNames == {NameAt(k) : k \in {m \in 1..Len(lines) : ~IsHeading(lines[m])}}

\* C15 as stated: whenever the keyword fallback is triggered, no line of the input
\* was classified as a heading.
C15_AsStated ==
    (analysis_type \in AnalysisType /\ fallback_runs > 0) => HeadingsSeen = 0

\* C15, amended: the keyword fallback is triggered exactly when the scan yields at most
\* one section, that is when the body lines of the input are stored under at most one
\* section name. An input without heading line always triggers it (its one section is
\* "overview" with the whole text); an input with heading lines triggers it as well
\* when its body lines stand under one name only or it has no body line, and is kept
\* from the fallback only when the scan yields two or more sections.
C15_FallbackTrigger ==
    (analysis_type \in AnalysisType /\ ScanEnded /\ pc \in {"map", "done"}) =>
        /\ HeadingsSeen = HeadingCount(lines)
        /\ (fallback_runs = 1) = (Len(segmented) <= 1)
        /\ (fallback_runs = 1) = (Cardinality(StoredNames) <= 1)
        /\ (fallback_runs = 0) = (Cardinality(StoredNames) >= 2)
        /\ (HeadingsSeen = 0 =>
                /\ fallback_runs = 1
                /\ segmented = <<[name |-> overview, body |-> text]>>)
        /\ (fallback_runs = 0 => HeadingsSeen >= 1)

\* a text with two heading lines whose body lines stand under one name: the fallback ran
C15_Witness ==
    /\ ReturnedSupported
    /\ ScanEnded
    /\ HeadingsSeen = 2
    /\ fallback_runs = 1
    /\ Len(segmented) = 1
    /\ segmented[1].name # full_text
    /\ segmented[1].body # <<>>

(***************************************************************************)
(* extract_sections_from_content as a function of its argument: the calls  *)
(* of it on the texts of at most MaxKeywordLines lines of KeywordLines.    *)
(***************************************************************************)
MaxKeywordLines == 4

\* a keyword with a colon at the start of a line, in another case; the keyword in the
\* middle of a line; inside a longer word; a line without keyword; another keyword
\* with text after it; an empty line
KeywordLines == {
    <<"S", "e", "c", "u", "r", "i", "t", "y", ":">>,
    <<"o", "u", "r", " ", "s", "e", "c", "u", "r", "i", "t", "y", " ", "p", "o", "s", "t", "u", "r", "e">>,
    <<"i", "n", "s", "e", "c", "u", "r", "i", "t", "y">>,
    <<"T", "L", "S", " ", "e", "v", "e", "r", "y", "w", "h", "e", "r", "e", ".">>,
    <<"d", "e", "p", "e", "n", "d", "e", "n", "c", "y", ":", " ", "a", "u", "t", "h">>,
    <<>> }

KeywordInputs == {Join(ls) : ls \in LineSeqs(KeywordLines, MaxKeywordLines)}

KeywordsInit ==
    /\ text \in KeywordInputs
    /\ pc = "call"
    /\ sections = <<>>
    /\ analysis_type = "system_analysis"
    /\ lines = <<>>
    /\ i = 0
    /\ current_section = <<>>
    /\ current_content = <<>>
    /\ outcome = "pending"
    /\ result = <<>>
    /\ overwritten = 0
    /\ fallback_runs = 0
    /\ steps = 0
    /\ classified = <<>>
    /\ segmented = <<>>
    /\ mapper_runs = 0
    /\ calls = <<>>
    /\ alone = <<>>
    /\ possible_keys = <<>>
    /\ ServerIdle

\* the call: sections holds the returned dict
ExtractSectionsFromContent ==
    /\ pc = "call"
    /\ sections' = extract_sections_from_content(text)
    /\ outcome' = "returned"
    /\ pc' = "done"
    /\ UNCHANGED <<text, analysis_type, lines, i, current_section, current_content,
                   result, history, steps, audit, others>>

KeywordsNext == ExtractSectionsFromContent

Keywords == KeywordsInit /\ [][KeywordsNext]_vars

\* keyword.lower().replace(" ", "_") of the n-th keyword
SectionKey(n) == Replace(Lower(all_keywords[n]), " ", "_")

\* the n-th keyword stands at position q of s (lower-cased), and its line ends in a newline
KeywordAt(s, n, q) ==
    /\ q + Len(all_keywords[n]) - 1 <= Len(s)
    /\ SubSeq(s, q, q + Len(all_keywords[n]) - 1) = all_keywords[n]
    /\ \E k \in (q + Len(all_keywords[n]))..Len(s) : s[k] = NL

\* position q is the start of a line of s
LineStart(s, q) == q = 1 \/ s[q - 1] = NL

\* the position after the newline that ends the line of position q
AfterLine(s, q) ==
    1 + CHOOSE k \in q..Len(s) : s[k] = NL /\ \A m \in q..(k - 1) : s[m] # NL

\* the least element of a non-empty set of numbers, the greatest one
Least(set) == CHOOSE e \in set : \A f \in set : e <= f

Greatest(set) == CHOOSE e \in set : \A f \in set : e >= f

\* the positions where the n-th keyword stands at the start of a line ended by a newline
LineStartMatches(s, n) == {q \in 1..Len(s) : LineStart(s, q) /\ KeywordAt(s, n, q)}

\* the first position from p on where some keyword stands at the start of a line, else
\* the position after the end of s
NextLineStartMatch(s, p) ==
    Least({q \in p..Len(s) : LineStart(s, q) /\ \E m \in 1..Len(all_keywords) : KeywordAt(s, m, q)}
          \cup {Len(s) + 1})

\* C16 as stated: in extract_sections_from_content a keyword produces a section only
\* if it stands (in any case, a colon or not after it) at the start of a line that a
\* newline ends, and a keyword in the middle of a line or inside a longer word neither
\* produces a section nor ends the body of another section: the body of a keyword runs
\* from the line after its last line-start occurrence to the next line-start
\* occurrence of a keyword.
C16_AsStated ==
    (pc = "done" /\ outcome = "returned") =>
        LET low == Lower(text)
        IN  \A n \in 1..Len(all_keywords) :
                /\ HasKey(sections, SectionKey(n)) => LineStartMatches(low, n) # {}
                /\ LineStartMatches(low, n) # {} =>
                      /\ HasKey(sections, SectionKey(n))
                      /\ LET start_pos == AfterLine(low, Greatest(LineStartMatches(low, n)))
                         IN  DictGet(sections, SectionKey(n)) =
                                 Strip(SubSeq(text, start_pos,
                                              NextLineStartMatch(low, start_pos) - 1))

\* the matches of the n-th keyword: on each line that a newline ends, its leftmost
\* occurrence
MatchesOf(s, n) ==
    {q \in 1..Len(s) :
        /\ KeywordAt(s, n, q)
        /\ \A r \in 1..(q - 1) : KeywordAt(s, n, r) => \E k \in r..(q - 1) : s[k] = NL}

\* the first position from p on where some keyword stands, else the position after
\* the end of s
NextMatch(s, p) ==
    Least({q \in p..Len(s) : \E m \in 1..Len(all_keywords) : KeywordAt(s, m, q)}
          \cup {Len(s) + 1})

\* the text between the end of the line of the last match of the n-th keyword and the
\* next match of any keyword
RawBody(raw, n) ==
    LET start_pos == AfterLine(Lower(raw), Greatest(MatchesOf(Lower(raw), n)))
    IN  SubSeq(raw, start_pos, NextMatch(Lower(raw), start_pos) - 1)

\* C17 as stated: the body stored for a keyword match is the text from the character
\* after the newline of the matched line up to the start of the nearest following
\* match of any keyword, or up to the end of the text.
C17_AsStated ==
    (pc = "done" /\ outcome = "returned") =>
        \A n \in 1..Len(all_keywords) :
            MatchesOf(Lower(text), n) # {} =>
                /\ HasKey(sections, SectionKey(n))
                /\ DictGet(sections, SectionKey(n)) = RawBody(text, n)

\* C17, amended: the body stored for a keyword match is the text from the character
\* after the newline of the matched line up to the start of the nearest following
\* match of any keyword (not only the same one), or up to the end of the text, with
\* the white space at both ends stripped; the returned mapping holds, for each keyword
\* that has a match and for no other, the body of its last match.
C17_BodyBounds ==
    (pc = "done" /\ outcome = "returned") =>
        /\ \A n \in 1..Len(all_keywords) :
              /\ HasKey(sections, SectionKey(n)) = (MatchesOf(Lower(text), n) # {})
              /\ MatchesOf(Lower(text), n) # {} =>
                    DictGet(sections, SectionKey(n)) = Strip(RawBody(text, n))
        /\ \A b \in 1..Len(sections) :
              \E n \in 1..Len(all_keywords) : sections[b].name = SectionKey(n)

\* the body of "security" ends where the line of "dependency" starts, and lost its
\* last newline
C17_Witness ==
    /\ pc = "done"
    /\ outcome = "returned"
    /\ HasKey(sections, <<"s", "e", "c", "u", "r", "i", "t", "y">>)
    /\ HasKey(sections, <<"d", "e", "p", "e", "n", "d", "e", "n", "c", "y">>)
    /\ LET n == CHOOSE m \in 1..Len(all_keywords) :
                    all_keywords[m] = <<"s", "e", "c", "u", "r", "i", "t", "y">>
           body == DictGet(sections, <<"s", "e", "c", "u", "r", "i", "t", "y">>)
       IN  /\ body # <<>>
           /\ RawBody(text, n) = body \o <<NL>>
           /\ StartsWith(SubSeq(text, Len(text) - 16, Len(text)),
                         <<"d", "e", "p", "e", "n", "d", "e", "n", "c", "y", ":">>)

(***************************************************************************)
(* extract_section as a function of its arguments: the calls of it on the  *)
(* dicts of at most MaxSections sections and on lists of possible keys of  *)
(* the source.                                                             *)
(***************************************************************************)
MaxSections == 3

\* section names: some contain one possible key, some several, one contains none
SectionNames == {
    <<"o", "v", "e", "r", "v", "i", "e", "w">>,
    <<"a", "p", "p", "l", "i", "c", "a", "t", "i", "o", "n", "_", "o", "v", "e", "r", "v", "i", "e", "w">>,
    <<"s", "u", "m", "m", "a", "r", "y">>,
    <<"s", "e", "c", "u", "r", "i", "t", "y", "_", "e", "v", "a", "l", "u", "a", "t", "i", "o", "n">>,
    <<"t", "l", "s">> }

\* a section has an empty body, or a body that tells which section it is
SectionEntries ==
    UNION {{[name |-> nm, body |-> <<>>], [name |-> nm, body |-> <<"o", "f", " ">> \o nm]} :
              nm \in SectionNames}

\* the dicts of at most MaxSections sections: the names are distinct
SectionDicts ==
    {d \in UNION {[1..n -> SectionEntries] : n \in 0..MaxSections} :
        \A a, b \in 1..Len(d) : d[a].name = d[b].name => a = b}

\* the lists of possible keys of executive_summary, application_overview and security
KeyLists == {PRRSchema[1].possible_keys, PRRSchema[2].possible_keys,
             SystemAnalysisSchema[4].possible_keys}

ExtractInit ==
    /\ sections \in SectionDicts
    /\ possible_keys \in KeyLists
    /\ pc = "call"
    /\ text = <<>>
    /\ analysis_type = "system_analysis"
    /\ lines = <<>>
    /\ i = 0
    /\ current_section = <<>>
    /\ current_content = <<>>
    /\ outcome = "pending"
    /\ result = <<>>
    /\ overwritten = 0
    /\ fallback_runs = 0
    /\ steps = 0
    /\ classified = <<>>
    /\ segmented = <<>>
    /\ mapper_runs = 0
    /\ calls = <<>>
    /\ alone = <<>>
    /\ ServerIdle

\* the call: result holds the returned string
ExtractSection ==
    /\ pc = "call"
    /\ result' = extract_section(sections, possible_keys)
    /\ outcome' = "returned"
    /\ pc' = "done"
    /\ UNCHANGED <<text, analysis_type, locals, history, steps, audit, calls, alone,
                   possible_keys, server>>

ExtractNext == ExtractSection

Extract == ExtractInit /\ [][ExtractNext]_vars

\* the inner loop: the first section, from the b-th on, whose name contains key; 0 for none
RECURSIVE FirstNamed(_, _, _)
FirstNamed(secs, key, b) ==
    IF b > Len(secs) THEN 0
    ELSE IF Contains(secs[b].name, key) THEN b
    ELSE FirstNamed(secs, key, b + 1)

\* the outer loop, from the k-th key on: the section found for the first key that finds
\* one; 0 for none
RECURSIVE FirstFound(_, _, _)
FirstFound(secs, keys, k) ==
    IF k > Len(keys) THEN 0
    ELSE IF FirstNamed(secs, keys[k], 1) # 0 THEN FirstNamed(secs, keys[k], 1)
    ELSE FirstFound(secs, keys, k + 1)

\* some section name contains some possible key
SomeMatch(secs, keys) ==
    \E k \in 1..Len(keys) : \E b \in 1..Len(secs) : Contains(secs[b].name, keys[k])

\* C18 as stated: extract_section returns the body of the first section found by going
\* through the possible keys in list order and, for each key, through the section
\* names in storage order, taking the first name that contains the key; it returns the
\* empty string if and only if no section name contains any possible key.
C18_AsStated ==
    (pc = "done" /\ outcome = "returned") =>
        /\ (SomeMatch(sections, possible_keys) =>
                result = sections[FirstFound(sections, possible_keys, 1)].body)
        /\ (result = <<>>) = ~SomeMatch(sections, possible_keys)

\* C18, amended: extract_section returns the body of the first section found by going
\* through the possible keys in list order and, for each key, through the section
\* names in storage order, taking the first name that contains the key, so a section
\* that matches an earlier key wins over an earlier-stored section that matches only a
\* later key; it returns the empty string when no section name contains any possible
\* key, and also when the section found has an empty body.
C18_FirstMatch ==
    (pc = "done" /\ outcome = "returned") =>
        /\ (SomeMatch(sections, possible_keys) =>
                /\ FirstFound(sections, possible_keys, 1) \in 1..Len(sections)
                /\ result = sections[FirstFound(sections, possible_keys, 1)].body)
        /\ (~SomeMatch(sections, possible_keys) =>
                FirstFound(sections, possible_keys, 1) = 0 /\ result = <<>>)
        /\ (result = <<>>) =
               (\/ ~SomeMatch(sections, possible_keys)
                \/ sections[FirstFound(sections, possible_keys, 1)].body = <<>>)

\* "overview" is stored first and matches the third key, "summary" is stored after it
\* and matches the second key: the body of "summary" is returned
C18_Witness ==
    /\ pc = "done"
    /\ outcome = "returned"
    /\ possible_keys = PRRSchema[1].possible_keys
    /\ Len(sections) = 2
    /\ sections[1].name = <<"o", "v", "e", "r", "v", "i", "e", "w">>
    /\ sections[1].body # <<>>
    /\ sections[2].name = <<"s", "u", "m", "m", "a", "r", "y">>
    /\ sections[2].body # <<>>
    /\ result = sections[2].body

(***************************************************************************)
(* The raw text in the first field and the matching of the possible keys.  *)
(***************************************************************************)
\* the body selected for field f by the matching of its possible keys
SelectedBody(f) == extract_section(sections, KeysOf(Schema(analysis_type), f))

\* a possible key of some field of the type is part of the name of some section
SomeKeyMatches ==
    \E f \in CanonicalFields : SomeMatch(sections, KeysOf(Schema(analysis_type), f))

\* the raw text was assigned: it is in the first field, and the other fields are empty
RawTextAssigned ==
    /\ result[FirstField] = text
    /\ \A f \in CanonicalFields \ {FirstField} : result[f] = <<>>

\* C19 as stated: the entire raw text is assigned to the first canonical field only
\* when no possible key of any canonical field is part of any section name; whenever
\* at least one possible key matches a section name, every canonical field keeps the
\* body selected for it.
C19_AsStated ==
    (ReturnedSupported /\ text # <<>>) =>
        (SomeKeyMatches => \A f \in CanonicalFields : result[f] = SelectedBody(f))

\* C19, amended: the entire raw text is assigned to the first canonical field exactly
\* when the body selected for every canonical field is empty, which is the case when
\* no possible key is part of any section name and also when every section that a
\* possible key selects has an empty body; whenever the body selected for at least
\* one field is not empty, every canonical field keeps the body selected for it.
C19_RawTextOnlyWhenAllEmpty ==
    (ReturnedSupported /\ text # <<>>) =>
        /\ ((\A f \in CanonicalFields : SelectedBody(f) = <<>>) => RawTextAssigned)
        /\ ((\E f \in CanonicalFields : SelectedBody(f) # <<>>) =>
                \A f \in CanonicalFields : result[f] = SelectedBody(f))
        /\ (~SomeKeyMatches => \A f \in CanonicalFields : SelectedBody(f) = <<>>)

\* one field has a body, another has none: the fields keep what was selected, and the
\* raw text is nowhere
C19_Witness ==
    /\ ReturnedSupported
    /\ text # <<>>
    /\ SomeKeyMatches
    /\ \E f \in CanonicalFields : SelectedBody(f) # <<>>
    /\ \E f \in CanonicalFields : SelectedBody(f) = <<>>
    /\ \A f \in CanonicalFields : result[f] = SelectedBody(f)
    /\ result[FirstField] # text

(***************************************************************************)
(* The test of the scan loop, line by line: the scan of texts of at most   *)
(* MaxHeadingLines lines that meet or just miss each heading pattern.      *)
(***************************************************************************)
MaxHeadingLines == 2

HeadingLines == {
    <<"#", " ", "a", "b">>,
    <<"#", "a", "b">>,
    <<"#", "#", "\t", "a", "b">>,
    <<" ", "#", " ", "a", "b">>,
    <<"A", "B", ":", " ", "x">>,
    <<"A", "B", ":">>,
    <<"A", ":">>,
    <<"A", " ", "B", ":", "x">>,
    <<"A", "\t", ":">>,
    <<"A", "b", ":">>,
    <<"a", "B", ":", " ", "x">>,
    <<"1", ".", " ", "A", "b">>,
    <<"1", ".", " ", "a", "b">>,
    <<"1", "2", ".", "\t", "A">>,
    <<"1", ".", "A">>,
    <<"R", "I", "S", "K", "y">>,
    <<"R", "i", "s", "k">>,
    <<" ", "R", "I", "S", "K">>,
    <<"A", "B", "C", "D">>,
    <<"A", "B", "C">>,
    <<" ", "A", "B", "C", " ">>,
    <<"A", "1", "-", "2">>,
    <<"1", "2", "3", "4">>,
    <<"a", "b", "c", "d">>,
    <<>> }

HeadingInputs ==
    {Join(ls) : ls \in UNION {[1..n -> HeadingLines] : n \in 1..MaxHeadingLines}}

HeadingInit ==
    /\ text \in HeadingInputs
    /\ analysis_type = "system_analysis"
    /\ pc = "parse"
    /\ lines = <<>>
    /\ i = 0
    /\ sections = <<>>
    /\ current_section = <<>>
    /\ current_content = <<>>
    /\ outcome = "pending"
    /\ result = <<>>
    /\ overwritten = 0
    /\ fallback_runs = 0
    /\ steps = 0
    /\ classified = <<>>
    /\ segmented = <<>>
    /\ mapper_runs = 0
    /\ calls = <<>>
    /\ alone = <<>>
    /\ possible_keys = <<>>
    /\ ServerIdle

\* lines 673-723: the entry, the scan loop and the save of the last section
HeadingNext ==
    \/ ParseBegin
    \/ ScanHeading
    \/ ScanContent
    \/ SaveLast

Heading == HeadingInit /\ [][HeadingNext]_vars

\* rule 1: the line starts with one or more '#' followed by whitespace
StartsWithHashes(l) ==
    \E h \in 1..(Len(l) - 1) : (\A k \in 1..h : l[k] = "#") /\ l[h + 1] \in WhiteSpace

\* rule 2, of the whole line: a capital letter, then capital letters and whitespace,
\* then the colon that ends the line
CapsLabelLine(l) ==
    /\ Len(l) >= 3
    /\ l[1] \in UpperSet
    /\ \A k \in 2..(Len(l) - 1) : l[k] \in UpperSet \cup WhiteSpace
    /\ l[Len(l)] = ":"

\* rule 2, of the start of the line: a capital letter, then one or more capital
\* letters or whitespace characters, then a colon; anything may follow the colon
StartsWithCapsLabel(l) ==
    \E c \in 3..Len(l) :
        /\ l[1] \in UpperSet
        /\ \A k \in 2..(c - 1) : l[k] \in UpperSet \cup WhiteSpace
        /\ l[c] = ":"

\* rule 3: the line starts with digits, a period, whitespace and an upper-case letter
StartsWithNumber(l) ==
    \E d \in 1..Len(l) : \E u \in (d + 3)..Len(l) :
        /\ \A k \in 1..d : l[k] \in DigitSet
        /\ l[d + 1] = "."
        /\ \A k \in (d + 2)..(u - 1) : l[k] \in WhiteSpace
        /\ l[u] \in UpperSet

\* rule 4: the line begins, in this case, with a word of the section vocabulary
StartsWithSectionWord(l) ==
    \E n \in 1..Len(common_section_names) :
        /\ Len(common_section_names[n]) <= Len(l)
        /\ SubSeq(l, 1, Len(common_section_names[n])) = common_section_names[n]

\* rule 5: the trimmed line is upper-case and longer than 3 characters
UpperCaseLine(l) ==
    LET t == Strip(l)
    IN  /\ Len(t) > 3
        /\ \E k \in 1..Len(t) : t[k] \in UpperSet
        /\ \A k \in 1..Len(t) : t[k] \notin LowerSet

\* the scan has classified the lines before the i-th, each one once
Scanned == pc \in {"scan", "saved"} /\ Len(classified) = i - 1

\* C20 as stated: a line is taken as a heading if and only if at least one of the
\* five rules holds for that line alone, whatever the lines around it, where rule 2
\* is that the line consists of a capital letter followed by capital letters and
\* spaces and is terminated by a colon.
C20_AsStated ==
    pc \in {"scan", "saved"} =>
        /\ Len(classified) = i - 1
        /\ \A k \in 1..Len(classified) :
               classified[k] = (\/ StartsWithHashes(lines[k])
                                \/ CapsLabelLine(lines[k])
                                \/ StartsWithNumber(lines[k])
                                \/ StartsWithSectionWord(lines[k])
                                \/ UpperCaseLine(lines[k]))

\* C20, amended: a line is taken as a heading if and only if at least one of the five
\* rules holds for that line alone, whatever the lines around it, where rule 2 is that
\* the line starts with a capital letter followed by one or more capital letters or
\* whitespace characters and then a colon, whatever follows the colon.
C20_HeadingRules ==
    pc \in {"scan", "saved"} =>
        /\ Len(classified) = i - 1
        /\ \A k \in 1..Len(classified) :
               classified[k] = (\/ StartsWithHashes(lines[k])
                                \/ StartsWithCapsLabel(lines[k])
                                \/ StartsWithNumber(lines[k])
                                \/ StartsWithSectionWord(lines[k])
                                \/ UpperCaseLine(lines[k]))

\* "AB: x" meets rule 2 by its start only, and is a heading after a line that is none
C20_Witness ==
    /\ pc = "saved"
    /\ lines = << <<"a", "b", "c", "d">>, <<"A", "B", ":", " ", "x">> >>
    /\ classified = <<FALSE, TRUE>>

(***************************************************************************)
(* The scan and its section dict: lines 678-727 on texts of at most        *)
(* MaxSegmenterLines lines, with headings whose names need each step of    *)
(* the normalisation, or none of it.                                       *)
(***************************************************************************)
MaxSegmenterLines == 3

SegmenterLines == {
    <<"x">>,
    <<"y">>,
    <<"#", " ", ":">>,
    <<"A", " ", " ", "B", ":">>,
    <<"A", "\t", "B", ":">>,
    <<"#", "#", " ", " ", "A", "b", " ", "c", ":">>,
    <<"#", "A", "B", "C", "D">>,
    <<"O", "V", "E", "R", "V", "I", "E", "W">>,
    <<"A", "B", "C", "D", ":", ":">>,
    <<" ", "R", "I", "S", "K", ":", " ">> }

SegmenterInputs == {Join(ls) : ls \in LineSeqs(SegmenterLines, MaxSegmenterLines)}

SegmenterInit ==
    /\ text \in SegmenterInputs
    /\ analysis_type = "system_analysis"
    /\ pc = "parse"
    /\ lines = <<>>
    /\ i = 0
    /\ sections = <<>>
    /\ current_section = <<>>
    /\ current_content = <<>>
    /\ outcome = "pending"
    /\ result = <<>>
    /\ overwritten = 0
    /\ fallback_runs = 0
    /\ steps = 0
    /\ classified = <<>>
    /\ segmented = <<>>
    /\ mapper_runs = 0
    /\ calls = <<>>
    /\ alone = <<>>
    /\ possible_keys = <<>>
    /\ ServerIdle

\* lines 673-727: the entry, the scan loop, the save of the last section and full_text
SegmenterNext ==
    \/ ParseBegin
    \/ ScanHeading
    \/ ScanContent
    \/ SaveLast
    \/ DefaultSection

Segmenter == SegmenterInit /\ [][SegmenterNext]_vars

\* the line scanned last was taken as a heading: current_section is its name
AfterHeading ==
    /\ pc \in {"scan", "saved", "sections"}
    /\ i > 1
    /\ Len(classified) = i - 1
    /\ classified[i - 1]

\* the number of '#' at the start of t
HashCount(t) == Cardinality({k \in 1..Len(t) : \A m \in 1..k : t[m] = "#"})

\* the number of whitespace characters of t that follow position h without a gap
SpaceCount(t, h) ==
    Cardinality({k \in (h + 1)..Len(t) : \A m \in (h + 1)..k : t[m] \in WhiteSpace})

\* every run of whitespace of s becomes one underscore
RECURSIVE Underscored(_)
Underscored(s) ==
    IF s = <<>> THEN <<>>
    ELSE IF s[1] \in WhiteSpace
         THEN <<"_">> \o Underscored(SubSeq(s, 2 + SpaceCount(s, 1), Len(s)))
         ELSE <<s[1]>> \o Underscored(Tail(s))

\* the trimmed line without its last character when that is a colon
WithoutColon(t) == IF t # <<>> /\ t[Len(t)] = ":" THEN SubSeq(t, 1, Len(t) - 1) ELSE t

\* the reference normalisation: the leading '#' and the whitespace after them removed,
\* one trailing colon removed, lower case, each run of whitespace one underscore
ReferenceName(line) ==
    LET t     == Strip(line)
        h     == HashCount(t)
        rest  == SubSeq(t, h + SpaceCount(t, h) + 1, Len(t))
    IN  Underscored(Lower(WithoutColon(rest)))

\* the normalisation of the scan: the leading '#' are removed only together with
\* whitespace that follows them, one trailing colon is removed, lower case, and each
\* space character becomes one underscore; other whitespace stays
ScanName(line) ==
    LET t     == Strip(line)
        h     == HashCount(t)
        w     == SpaceCount(t, h)
        rest  == IF h >= 1 /\ w >= 1 THEN SubSeq(t, h + w + 1, Len(t)) ELSE t
        body  == WithoutColon(rest)
    IN  [k \in 1..Len(body) |-> IF body[k] = " " THEN "_" ELSE LowerCh(body[k])]

\* C21 as stated: for every line taken as a heading, the section name made from it is
\* the reference normalisation: leading marker characters removed, one trailing colon
\* removed, lower case, every run of whitespace one underscore; so the name starts
\* with no '#', holds no whitespace and no two underscores from adjacent spaces.
C21_AsStated ==
    (AfterHeading /\ ReferenceName(lines[i - 1]) # <<>>) =>
        /\ current_section = ReferenceName(lines[i - 1])
        /\ current_section[1] # "#"
        /\ \A k \in 1..Len(current_section) : current_section[k] \notin WhiteSpace

\* C21, amended: for every line taken as a heading, the section name made from it is
\* the trimmed line in lower case, without its leading '#' when whitespace follows
\* them (and without that whitespace), without one trailing colon, and with each
\* space character replaced by one underscore: adjacent spaces give adjacent
\* underscores, tabs stay, and '#' that no whitespace follows stay. (When this is
\* the empty string, the name is the placeholder of C22.)
C21_NameOfHeading ==
    (AfterHeading /\ ScanName(lines[i - 1]) # <<>>) =>
        /\ current_section = ScanName(lines[i - 1])
        /\ \A k \in 1..Len(current_section) :
               current_section[k] \notin UpperSet \cup {" "}

\* "A  B:" after a line of content: the name is "a__b"
C21_Witness ==
    /\ AfterHeading
    /\ lines[i - 1] = <<"A", " ", " ", "B", ":">>
    /\ current_section = <<"a", "_", "_", "b">>
    /\ sections # <<>>

\* the names of the sections stored
KeysOfSections == {sections[k].name : k \in 1..Len(sections)}

\* "section_0", "section_1", ...: the placeholder for n sections stored
Placeholder(n) ==
    <<"s", "e", "c", "t", "i", "o", "n", "_">> \o
    (IF n < 10 THEN <<DigitChars[n + 1]>>
     ELSE <<DigitChars[(n \div 10) + 1], DigitChars[(n % 10) + 1]>>)

\* C22: every section name set by the scan is a non-empty string: when the
\* normalisation of a heading line gives the empty string, the name is the
\* placeholder "section_<n>" with n the number of sections stored at that moment; so
\* no key of the section dict of the scan is empty.
C22_NameNotEmpty ==
    pc \in {"scan", "saved"} =>
        /\ current_section # <<>>
        /\ <<>> \notin KeysOfSections
        /\ (AfterHeading /\ ScanName(lines[i - 1]) = <<>> =>
                current_section = Placeholder(Len(sections)))

\* the heading "# :" after one stored section: the name is "section_1"
C22_Witness ==
    /\ AfterHeading
    /\ ScanName(lines[i - 1]) = <<>>
    /\ Len(sections) = 1
    /\ current_section = <<"s", "e", "c", "t", "i", "o", "n", "_", "1">>

\* lines a..b are a run of lines that the scan took as content, with a heading or
\* the start of the text before it, and the scan has stored it: a heading was
\* scanned right after it, or it ends the text and the last section is saved
FlushedRun(a, b) ==
    /\ a <= b
    /\ b <= Len(classified)
    /\ \A k \in a..b : ~classified[k]
    /\ (a = 1 \/ classified[a - 1])
    /\ \/ (b + 1 <= Len(classified) /\ classified[b + 1])
       \/ (pc = "saved" /\ b = Len(lines))

FlushedRuns == {r \in (1..Len(lines)) \X (1..Len(lines)) : FlushedRun(r[1], r[2])}

\* name is a name that the heading before line a may have set: "overview" when there
\* is no such heading, the name made from the heading, or a placeholder when that
\* name is empty
NameOfRun(name, a) ==
    IF a = 1 THEN name = <<"o", "v", "e", "r", "v", "i", "e", "w">>
    ELSE IF ScanName(lines[a - 1]) # <<>> THEN name = ScanName(lines[a - 1])
    ELSE \E n \in 0..Len(lines) : name = Placeholder(n)

\* the lines a..b joined by newlines
RECURSIVE JoinedLines(_, _)
JoinedLines(a, b) == IF a = b THEN lines[a] ELSE lines[a] \o <<"\n">> \o JoinedLines(a + 1, b)

\* the index of the last heading among the lines scanned, 0 when there is none
LastHeadingIndex ==
    IF \E k \in 1..Len(classified) : classified[k]
    THEN CHOOSE k \in 1..Len(classified) :
             classified[k] /\ \A m \in (k + 1)..Len(classified) : ~classified[m]
    ELSE 0

\* C23: after the scan of any prefix of the lines, each body of the section dict is
\* the newline-join, in input order, of one run of consecutive lines that are no
\* headings, stored under the name made from the heading right before the run, or
\* under "overview" for the run before the first heading; a heading stores the
\* buffer only if it holds a line, and no heading line is inside a body.
C23_BodiesAreRuns ==
    pc \in {"scan", "saved"} =>
        /\ Len(classified) = i - 1
        /\ \A k \in 1..Len(classified) : classified[k] = IsHeading(lines[k])
        /\ \A e \in 1..Len(sections) :
               \E r \in FlushedRuns :
                   /\ sections[e].body = JoinedLines(r[1], r[2])
                   /\ NameOfRun(sections[e].name, r[1])
        /\ Len(sections) <= Cardinality(FlushedRuns)
        /\ \A e \in 1..Len(sections) :
               \A k \in 1..Len(Split(sections[e].body)) :
                   ~IsHeading(Split(sections[e].body)[k])
        /\ (pc = "scan" =>
                current_content = SubSeq(lines, LastHeadingIndex + 1, Len(classified)))

\* two lines of content and a heading are scanned: "overview" holds "x\ny", and the
\* buffer is empty again
C23_Witness ==
    /\ pc = "scan"
    /\ i = 4
    /\ classified = <<FALSE, FALSE, TRUE>>
    /\ sections = << [name |-> <<"o", "v", "e", "r", "v", "i", "e", "w">>,
                      body |-> <<"x", "\n", "y">>] >>
    /\ current_content = <<>>

\* every line of the text was taken as a heading: the scan stored no buffer
OnlyHeadings == Len(classified) = Len(lines) /\ \A k \in 1..Len(classified) : classified[k]

\* the dict with the one entry "full_text" that holds the raw text
FullTextOnly == << [name |-> <<"f", "u", "l", "l", "_", "t", "e", "x", "t">>, body |-> text] >>

\* C24 as stated: the section dict that leaves the scan is never empty; if the scan
\* stored no buffer, it is the one entry "full_text" with the entire raw text, and
\* this happens only for input in which no lines existed; in every other case no
\* "full_text" entry is added.
C24_AsStated ==
    pc = "sections" =>
        /\ sections # <<>>
        /\ (OnlyHeadings => sections = FullTextOnly)
        /\ (sections = FullTextOnly /\ OnlyHeadings => lines = <<>>)

\* C24, amended: the section dict that leaves the scan is never empty; the step
\* after the scan replaces an empty dict by the one entry "full_text" with the entire
\* raw text, which happens exactly when every line of the (non-empty) text was taken
\* as a heading, so that no buffer was stored; a text has at least one line; in
\* every other case the step leaves the dict of the scan as it is.
C24_FullTextOnlyForHeadings ==
    [][pc = "saved" =>
          /\ pc' = "sections"
          /\ lines # <<>>
          /\ (sections = <<>>) = OnlyHeadings
          /\ sections' # <<>>
          /\ (OnlyHeadings => sections' = FullTextOnly)
          /\ (~OnlyHeadings => sections' = sections)]_vars

\* two headings and no content: the dict is the entry "full_text" with the two lines
C24_Witness ==
    /\ pc = "sections"
    /\ Len(lines) = 2
    /\ OnlyHeadings
    /\ sections = FullTextOnly
    /\ segmented = sections

(***************************************************************************)
(* parse_analysis_result for the three types, on texts of at most          *)
(* MaxOutcomeLines lines, one of them a heading with the name "full_text". *)
(***************************************************************************)
MaxOutcomeLines == 3

OutcomeLines == {
    <<"x">>,
    <<"F", "U", "L", "L", "_", "T", "E", "X", "T">>,
    <<"S", "E", "C", "U", "R", "I", "T", "Y", ":">>,
    <<"T", "L", "S", " ", "e", "v", "e", "r", "y", "w", "h", "e", "r", "e", ".">>,
    <<"d", "e", "p", "e", "n", "d", "e", "n", "c", "y", ":", " ", "a", "u", "t", "h">> }

OutcomeInputs == {Join(ls) : ls \in LineSeqs(OutcomeLines, MaxOutcomeLines)}

OutcomesInit ==
    /\ text \in OutcomeInputs
    /\ analysis_type \in AnalysisType
    /\ pc = "parse"
    /\ lines = <<>>
    /\ i = 0
    /\ sections = <<>>
    /\ current_section = <<>>
    /\ current_content = <<>>
    /\ outcome = "pending"
    /\ result = <<>>
    /\ overwritten = 0
    /\ fallback_runs = 0
    /\ steps = 0
    /\ classified = <<>>
    /\ segmented = <<>>
    /\ mapper_runs = 0
    /\ calls = <<>>
    /\ alone = <<>>
    /\ possible_keys = <<>>
    /\ ServerIdle

\* parse_analysis_result with a member of AnalysisType
OutcomesNext ==
    \/ ParseBegin
    \/ ScanHeading
    \/ ScanContent
    \/ SaveLast
    \/ DefaultSection
    \/ FallbackSections
    \/ KeepSections
    \/ MapFields

Outcomes == OutcomesInit /\ [][OutcomesNext]_vars

\* the keys that extract_sections_from_content can set
KeywordKeys == {SectionKey(n) : n \in 1..Len(all_keywords)}

NamesOf(secs) == {secs[k].name : k \in 1..Len(secs)}

FullTextKey == <<"f", "u", "l", "l", "_", "t", "e", "x", "t">>

\* C25 as stated: for each of the three types and every non-empty text, "sections" of
\* the result never has the key "full_text" and is never a lone section of the scan: a
\* dict of the scan of size one always goes to the keyword fallback, so "sections" is
\* a dict of the scan with at least two entries or a dict whose keys are all
\* normalised keywords of the vocabulary.
C25_AsStated ==
    (ReturnedSupported /\ text # <<>>) =>
        /\ FullTextKey \notin NamesOf(result["sections"])
        /\ \/ (result["sections"] = segmented /\ Len(segmented) >= 2)
           \/ NamesOf(result["sections"]) \subseteq KeywordKeys

\* C25, amended: for each of the three types and every non-empty text, a dict of the
\* scan of size one (the substituted "full_text" section included) always goes to the
\* keyword fallback, so "sections" of the result is the dict of the scan with at
\* least two entries, or the result of the fallback, whose keys are all normalised
\* keywords of the vocabulary and never "full_text"; the key "full_text" is in
\* "sections" only as the name of a heading line in a dict of the scan with at least
\* two entries, never as the substituted section.
C25_NoLoneSection ==
    (ReturnedSupported /\ text # <<>>) =>
        /\ segmented # <<>>
        /\ (Len(segmented) = 1 =>
                /\ fallback_runs = 1
                /\ result["sections"] = extract_sections_from_content(text)
                /\ NamesOf(result["sections"]) \subseteq KeywordKeys
                /\ FullTextKey \notin NamesOf(result["sections"]))
        /\ (Len(segmented) >= 2 =>
                /\ fallback_runs = 0
                /\ result["sections"] = segmented)
        /\ (FullTextKey \in NamesOf(result["sections"]) =>
                /\ Len(segmented) >= 2
                /\ \E k \in 1..Len(lines) :
                       classified[k] /\ ScanName(lines[k]) = FullTextKey)
        /\ (OnlyHeadings => segmented = FullTextOnly /\ fallback_runs = 1)

\* the heading FULL_TEXT between two lines of content: "full_text" is a key of
\* "sections", next to "overview"
C25_Witness ==
    /\ ReturnedSupported
    /\ text # <<>>
    /\ Len(result["sections"]) = 2
    /\ FullTextKey \in NamesOf(result["sections"])
    /\ fallback_runs = 0

\* the substituted "full_text" section went to the fallback and is not in "sections"
C25_WitnessSubstituted ==
    /\ ReturnedSupported
    /\ text # <<>>
    /\ segmented = FullTextOnly
    /\ fallback_runs = 1
    /\ FullTextKey \notin NamesOf(result["sections"])

(***************************************************************************)
(* routers/analysis.py: the handlers of the analysis router on the         *)
(* in-memory dict analysis_results and the two directories. A handler runs *)
(* as one step: the awaits of the two create handlers come before their    *)
(* first write to analysis_results, and the id they write is new. The      *)
(* writes of the files are taken to succeed.                               *)
(***************************************************************************)
\* the uuid4() values that the create handlers may use up
MaxUploads == 2

\* current_user.username of the requests
Users == {"alice", "bob"}

\* the ids a request can name: the ids the create handlers can make
AnalysisIds == {AnalysisId(n, sfx) : n \in 1..MaxUploads, sfx \in {""} \cup AnalysisType}

\* the formats of the export requests: "PDF" is supported after lower(), "xml" is not
ExportFormats == { <<"P", "D", "F">>, <<"x", "m", "l">> }

SupportedFormats == { <<"j", "s", "o", "n">>, <<"p", "d", "f">>, <<"m", "d">> }

\* the state of the parser, which the servers do not touch
parser == <<text, analysis_type, pc, locals, outcome, result, history, steps, audit,
            calls, alone, possible_keys>>

ParserIdle ==
    /\ text = <<>>
    /\ analysis_type = "system_analysis"
    /\ pc = "serve"
    /\ lines = <<>>
    /\ i = 0
    /\ sections = <<>>
    /\ current_section = <<>>
    /\ current_content = <<>>
    /\ outcome = "pending"
    /\ result = <<>>
    /\ overwritten = 0
    /\ fallback_runs = 0
    /\ steps = 0
    /\ classified = <<>>
    /\ segmented = <<>>
    /\ mapper_runs = 0
    /\ calls = <<>>
    /\ alone = <<>>
    /\ possible_keys = <<>>

StoreInit == ParserIdle /\ ServerIdle

\* analysis_results[id] = record
Stored(store, id, record) ==
    [k \in DOMAIN store \cup {id} |-> IF k = id THEN record ELSE store[k]]

\* del analysis_results[id]
Deleted(store, id) == [k \in DOMAIN store \ {id} |-> store[k]]

\* the fields of AnalysisResult that the handlers read
AnalysisRecord(user, path) == [user_id |-> user, file_path |-> path]

Answer(op, user, id, status) == [op |-> op, user |-> user, id |-> id, status |-> status]

\* create_analysis: is_image is file.content_type.startswith("image/"), analysis_ok is
\* whether analyze_diagram returns; the uploaded file is removed when it raises
create_analysis(user, is_image, analysis_ok) ==
    /\ issued < MaxUploads
    /\ IF ~is_image
       THEN /\ response' = Answer("create", user, AnalysisId(0, "none"), 400)
            /\ UNCHANGED <<analysis_results, uploads, result_files, issued>>
       ELSE LET analysis_id == AnalysisId(issued + 1, "")
                file_path   == issued + 1
            IN  /\ issued' = issued + 1
                /\ IF analysis_ok
                   THEN /\ analysis_results' =
                               Stored(analysis_results, analysis_id,
                                      AnalysisRecord(user, file_path))
                        /\ uploads' = uploads \cup {file_path}
                        /\ result_files' = result_files \cup {analysis_id}
                        /\ response' = Answer("create", user, analysis_id, 200)
                   ELSE /\ uploads' = uploads \ {file_path}
                        /\ response' = Answer("create", user, analysis_id, 500)
                        /\ UNCHANGED <<analysis_results, result_files>>
    /\ UNCHANGED <<parser, temp_files, handled, analyzed>>

\* get_analysis
get_analysis(user, analysis_id) ==
    /\ response' =
           Answer("get", user, analysis_id,
                  IF analysis_id \notin DOMAIN analysis_results THEN 404
                  ELSE IF analysis_results[analysis_id].user_id # user THEN 403
                  ELSE 200)
    /\ UNCHANGED <<parser, analysis_results, uploads, result_files, issued, temp_files,
                   handled, analyzed>>

\* delete_analysis with a slip: the uploaded file is kept while another result names it
delete_analysis_keep_shared(user, analysis_id) ==
    /\ IF analysis_id \notin DOMAIN analysis_results
       THEN /\ response' = Answer("delete", user, analysis_id, 404)
            /\ UNCHANGED <<analysis_results, uploads, result_files>>
       ELSE IF analysis_results[analysis_id].user_id # user
       THEN /\ response' = Answer("delete", user, analysis_id, 403)
            /\ UNCHANGED <<analysis_results, uploads, result_files>>
       ELSE /\ uploads' =
                   IF \E k \in DOMAIN analysis_results \ {analysis_id} :
                          analysis_results[k].file_path =
                              analysis_results[analysis_id].file_path
                   THEN uploads
                   ELSE uploads \ {analysis_results[analysis_id].file_path}
            /\ result_files' = result_files \ {analysis_id}
            /\ analysis_results' = Deleted(analysis_results, analysis_id)
            /\ response' = Answer("delete", user, analysis_id, 204)
    /\ UNCHANGED <<parser, issued, temp_files, handled, analyzed>>

\* delete_analysis with a slip: the test of the user is missing
delete_analysis_by_anyone(user, analysis_id) ==
    /\ IF analysis_id \notin DOMAIN analysis_results
       THEN /\ response' = Answer("delete", user, analysis_id, 404)
            /\ UNCHANGED <<analysis_results, uploads, result_files>>
       ELSE /\ uploads' = uploads \ {analysis_results[analysis_id].file_path}
            /\ result_files' = result_files \ {analysis_id}
            /\ analysis_results' = Deleted(analysis_results, analysis_id)
            /\ response' = Answer("delete", user, analysis_id, 204)
    /\ UNCHANGED <<parser, issued, temp_files, handled, analyzed>>

\* delete_analysis
delete_analysis(user, analysis_id) ==
    /\ IF analysis_id \notin DOMAIN analysis_results
       THEN /\ response' = Answer("delete", user, analysis_id, 404)
            /\ UNCHANGED <<analysis_results, uploads, result_files>>
       ELSE IF analysis_results[analysis_id].user_id # user
       THEN /\ response' = Answer("delete", user, analysis_id, 403)
            /\ UNCHANGED <<analysis_results, uploads, result_files>>
       ELSE /\ uploads' = uploads \ {analysis_results[analysis_id].file_path}
            /\ result_files' = result_files \ {analysis_id}
            /\ analysis_results' = Deleted(analysis_results, analysis_id)
            /\ response' = Answer("delete", user, analysis_id, 204)
    /\ UNCHANGED <<parser, issued, temp_files, handled, analyzed>>

\* export_analysis
export_analysis(user, analysis_id, format) ==
    /\ response' =
           Answer("export", user, analysis_id,
                  IF analysis_id \notin DOMAIN analysis_results THEN 404
                  ELSE IF analysis_results[analysis_id].user_id # user THEN 403
                  ELSE IF Lower(format) \notin SupportedFormats THEN 400
                  ELSE 200)
    /\ UNCHANGED <<parser, analysis_results, uploads, result_files, issued, temp_files,
                   handled, analyzed>>

\* the loop of create_all_analysis over the results of analyze_diagram_all
RECURSIVE StoredAll(_, _, _, _, _)
StoredAll(store, types, base, user, path) ==
    IF types = <<>> THEN store
    ELSE StoredAll(Stored(store, AnalysisId(base, types[1]), AnalysisRecord(user, path)),
                   Tail(types), base, user, path)

\* the keys of the dict that analyze_diagram_all returns, in its order
AllTypes == <<"system_analysis", "destructive_testing", "prr">>

\* create_all_analysis
create_all_analysis(user, is_image, analysis_ok) ==
    /\ issued < MaxUploads
    /\ IF ~is_image
       THEN /\ response' = Answer("create_all", user, AnalysisId(0, "none"), 400)
            /\ UNCHANGED <<analysis_results, uploads, result_files, issued>>
       ELSE LET analysis_id_base == issued + 1
                file_path        == issued + 1
            IN  /\ issued' = issued + 1
                /\ IF analysis_ok
                   THEN /\ analysis_results' =
                               StoredAll(analysis_results, AllTypes, analysis_id_base,
                                         user, file_path)
                        /\ uploads' = uploads \cup {file_path}
                        /\ result_files' = result_files \cup
                               {AnalysisId(analysis_id_base, AllTypes[n]) : n \in 1..3}
                        /\ response' = Answer("create_all", user,
                                              AnalysisId(analysis_id_base, ""), 200)
                   ELSE /\ uploads' = uploads \ {file_path}
                        /\ response' = Answer("create_all", user,
                                              AnalysisId(analysis_id_base, ""), 500)
                        /\ UNCHANGED <<analysis_results, result_files>>
    /\ UNCHANGED <<parser, temp_files, handled, analyzed>>

StoreNext ==
    \/ \E user \in Users, is_image \in BOOLEAN, analysis_ok \in BOOLEAN :
           create_analysis(user, is_image, analysis_ok)
    \/ \E user \in Users, analysis_id \in AnalysisIds : get_analysis(user, analysis_id)
    \/ \E user \in Users, analysis_id \in AnalysisIds : delete_analysis(user, analysis_id)
    \/ \E user \in Users, analysis_id \in AnalysisIds, format \in ExportFormats :
           export_analysis(user, analysis_id, format)
    \/ \E user \in Users, is_image \in BOOLEAN, analysis_ok \in BOOLEAN :
           create_all_analysis(user, is_image, analysis_ok)

Store == StoreInit /\ [][StoreNext]_vars

\* the request that this step has handled names an analysis of the store
NamesStored(r) == r.id \in DOMAIN analysis_results

\* the store and the two directories are as before the step
StoreUnchanged == UNCHANGED <<analysis_results, uploads, result_files>>

\* C26: after any sequence of create, get, delete and export requests of several
\* users, a get, delete or export of a stored analysis by a user who did not create
\* it is answered with 403 and leaves the store unchanged, a request for an id that
\* is not in the store is answered with 404, and an analysis leaves the store only
\* by a delete of its creator.
C26_OwnerOnly ==
    [][LET r == response'
       IN  /\ (r.op \in {"get", "delete", "export"} /\ NamesStored(r)
                   /\ analysis_results[r.id].user_id # r.user) =>
                  (r.status = 403 /\ StoreUnchanged)
           /\ (r.op \in {"get", "delete", "export"} /\ ~NamesStored(r)) =>
                  (r.status = 404 /\ StoreUnchanged)
           /\ \A id \in DOMAIN analysis_results :
                  \/ (id \in DOMAIN analysis_results'
                         /\ analysis_results'[id] = analysis_results[id])
                  \/ (r.op = "delete" /\ r.id = id /\ r.status = 204
                         /\ r.user = analysis_results[id].user_id)]_vars

\* both users have an analysis in the store, and a delete by the user who did not
\* create the analysis was answered with 403: the analysis is still there
C26_Witness ==
    /\ response.op = "delete"
    /\ response.status = 403
    /\ response.id \in DOMAIN analysis_results
    /\ analysis_results[response.id].user_id # response.user
    /\ \A u \in Users : \E id \in DOMAIN analysis_results : analysis_results[id].user_id = u

\* the three ids that create_all_analysis makes from the base
IdsOfBase(base) == {AnalysisId(base, AllTypes[n]) : n \in 1..3}

\* C28: create_all_analysis stores three results, with the ids <base>_system_analysis,
\* <base>_destructive_testing and <base>_prr, that all name the same uploaded file; a
\* delete_analysis of any one of them removes that file, while the other two results
\* stay in the store and still name the removed file.
C28_SharedFile ==
    [][LET r == response'
       IN  /\ (r.op = "create_all" /\ r.status = 200) =>
                  /\ DOMAIN analysis_results' \ DOMAIN analysis_results = IdsOfBase(r.id.base)
                  /\ \A id \in IdsOfBase(r.id.base) :
                         /\ analysis_results'[id].file_path = r.id.base
                         /\ analysis_results'[id].user_id = r.user
                  /\ r.id.base \in uploads'
           /\ (r.op = "delete" /\ r.status = 204 /\ r.id.suffix # "") =>
                  /\ analysis_results[r.id].file_path \notin uploads'
                  /\ \A id \in IdsOfBase(r.id.base) \ {r.id} :
                         id \in DOMAIN analysis_results =>
                             /\ id \in DOMAIN analysis_results'
                             /\ analysis_results'[id].file_path =
                                    analysis_results[r.id].file_path]_vars

\* one of the three results was deleted: the other two are in the store, and the file
\* they name is gone
C28_Witness ==
    /\ response.op = "delete"
    /\ response.status = 204
    /\ response.id.suffix = "prr"
    /\ \E base \in 1..MaxUploads :
           /\ response.id.base = base
           /\ IdsOfBase(base) \ {response.id} \subseteq DOMAIN analysis_results
           /\ \A id \in IdsOfBase(base) \ {response.id} :
                  /\ analysis_results[id].file_path = base
                  /\ analysis_results[id].file_path \notin uploads

(***************************************************************************)
(* mcp_server.py: analyze_architecture, for at most MaxRequests requests.  *)
(***************************************************************************)
MaxRequests == 3

\* request.analysis_type: the three values of the type, and strings that are none
RequestTypes == AnalysisType \cup {"unsupported", "PRR", ""}

McpInit == ParserIdle /\ ServerIdle

McpAnswer(type, status) == [op |-> "analyze_architecture", analysis_type |-> type, status |-> status]

\* "except Exception as e: raise HTTPException(status_code=500, ...)": the status of
\* the answer when an exception leaves the try block; HTTPException is an Exception
Caught(raised_status) == 500

\* analyze_architecture: decodable is whether b64decode returns, analysis_ok whether
\* analyze_diagram does; the temporary file is unlinked only after analyze_diagram
analyze_architecture(decodable, request_type, analysis_ok) ==
    /\ handled < MaxRequests
    /\ handled' = handled + 1
    /\ IF ~decodable
       THEN /\ response' = McpAnswer(request_type, Caught(0))
            /\ UNCHANGED <<temp_files, analyzed>>
       ELSE IF request_type \notin AnalysisType
       THEN /\ response' = McpAnswer(request_type, Caught(400))
            /\ temp_files' = temp_files + 1
            /\ UNCHANGED analyzed
       ELSE /\ analyzed' = analyzed + 1
            /\ IF analysis_ok
               THEN /\ response' = McpAnswer(request_type, 200)
                    /\ UNCHANGED temp_files
               ELSE /\ response' = McpAnswer(request_type, Caught(0))
                    /\ temp_files' = temp_files + 1
    /\ UNCHANGED <<parser, analysis_results, uploads, result_files, issued>>

McpNext ==
    \E decodable \in BOOLEAN, request_type \in RequestTypes, analysis_ok \in BOOLEAN :
        analyze_architecture(decodable, request_type, analysis_ok)

Mcp == McpInit /\ [][McpNext]_vars

\* C27: analyze_architecture answers a request whose analysis_type is none of
\* "system_analysis", "destructive_testing" and "prr" with the status 400, and does
\* not call the analysis. (Stated for the requests whose diagram decodes, so that
\* the temporary file is written and the test of the type is reached.)
C27_AsStated ==
    [][LET r == response'
       IN  (r.op = "analyze_architecture" /\ temp_files' > temp_files
                /\ r.analysis_type \notin AnalysisType) =>
               (r.status = 400 /\ analyzed' = analyzed)]_vars

====
